---------------------------- MODULE Spec2Model ----------------------------
(***************************************************************************)
(* A model of the command/tool orchestration layer of the MCP registry     *)
(* CLI: the protocol client (cli/src/client.ts), the dispatcher            *)
(* (cli/src/commands/executor.ts, cli/src/runtime/mcp.ts), the agent loop  *)
(* (cli/src/agent/agentRunner.ts, cli/src/agent/tools.ts) and the          *)
(* interactive shell's submit handler.                                     *)
(*                                                                         *)
(* The program is single-threaded and asynchronous.  Every activation of   *)
(* an async function is a record with a position (pc); the activations     *)
(* form a call stack  shell -> agent -> slash -> mcp -> op  and an action  *)
(* is one run-to-the-next-await step of one of them.                       *)
(*                                                                         *)
(* Strings the code builds are sequences of tokens, so that a join, a      *)
(* prefix test or a trim is computed rather than assumed.                  *)
(***************************************************************************)
EXTENDS Integers, Sequences, FiniteSets, TLC

VARIABLES
  client,   \* the fields of the current McpClient instance
  op,       \* the running McpClient method and its execute() call
  wire,     \* the HTTP requests and responses of the current instance
  mcp,      \* the executeMcpCommand activation
  slash,    \* the executeSlashCommand activation
  agent,    \* the runAgentTurn activation
  shell     \* the interactive shell (handleSubmit)

vars == <<client, op, wire, mcp, slash, agent, shell>>

(***************************************************************************)
(* Values                                                                  *)
(***************************************************************************)
\* undefined / null, and a header that is not present
NULL == "null"

\* JavaScript truthiness of a string-or-undefined value
Truthy(s) == s # NULL /\ s # ""

\* b ?? a: a value once held is kept
KeepHeld(a, b) == IF b # NULL THEN b ELSE a

\* a ?? b
Coalesce(a, b) == IF a # NULL THEN a ELSE b

RECURSIVE Join(_, _)
\* Array.prototype.join over token sequences
Join(parts, sep) ==
  IF Len(parts) = 0 THEN <<>>
  ELSE IF Len(parts) = 1 THEN parts[1]
  ELSE parts[1] \o sep \o Join(Tail(parts), sep)

RECURSIVE Flatten(_)
\* plain concatenation of token sequences
Flatten(parts) ==
  IF Len(parts) = 0 THEN <<>> ELSE parts[1] \o Flatten(Tail(parts))

IsPrefix(p, s) == Len(p) <= Len(s) /\ SubSeq(s, 1, Len(p)) = p

(***************************************************************************)
(* JSON texts.  A text is a token; JSON.parse is the table below.          *)
(***************************************************************************)
JsonTexts == {"{result}", "{result+session}", "{error:forbidden}", "{error:nomessage}", "{}"}

JsonParse(t) ==
  CASE t = "{result}"          -> [jsonrpc |-> "2.0", result |-> [ok |-> TRUE]]
    [] t = "{result+session}"  -> [jsonrpc |-> "2.0", result |-> [sessionId |-> "r1"]]
    [] t = "{error:forbidden}" -> [jsonrpc |-> "2.0", error |-> [message |-> "forbidden"]]
    [] t = "{error:nomessage}" -> [jsonrpc |-> "2.0", error |-> [code |-> "-32601"]]
    [] t = "{}"                -> [jsonrpc |-> "2.0"]

\* String.prototype.trim on a line of tokens: blank tokens are whitespace
RECURSIVE TrimLeft(_)
TrimLeft(l) == IF Len(l) > 0 /\ l[1] = " " THEN TrimLeft(Tail(l)) ELSE l

RECURSIVE TrimRight(_)
TrimRight(l) ==
  IF Len(l) > 0 /\ l[Len(l)] = " " THEN TrimRight(SubSeq(l, 1, Len(l) - 1)) ELSE l

Trim(l) == TrimRight(TrimLeft(l))

\* JSON.parse of a text: the text around optional whitespace must be one JSON text
CanParse(l) == Len(Trim(l)) = 1 /\ Trim(l)[1] \in JsonTexts

Parsed(l) == JsonParse(Trim(l)[1])

\* the envelope of an empty body and of a swallowed failure
EmptyEnvelope == [jsonrpc |-> "2.0"]

SseNoPayload ==
  [jsonrpc |-> "2.0", error |-> [message |-> "No JSON payload found in SSE response"]]


(***************************************************************************)
(* McpClient (cli/src/client.ts)                                           *)
(***************************************************************************)
\* options.timeout ?? 30_000
DefaultTimeoutMs == 30000

\* the constructor: the URL loses one trailing slash
StripTrailingSlash(u) ==
  IF Len(u) > 0 /\ u[Len(u)] = "/" THEN SubSeq(u, 1, Len(u) - 1) ELSE u

\* a constructor that starts the instance with a session identifier
SessionPreset(options) ==
  [url          |-> StripTrailingSlash(options.url),
   gatewayToken |-> options.gatewayToken,
   backendToken |-> options.backendToken,
   timeout      |-> IF "timeout" \in DOMAIN options THEN options.timeout ELSE DefaultTimeoutMs,
   requestId    |-> 0,
   sessionId    |-> "s1"]

NewMcpClient(options) ==
  [url          |-> StripTrailingSlash(options.url),
   gatewayToken |-> options.gatewayToken,
   backendToken |-> options.backendToken,
   timeout      |-> IF "timeout" \in DOMAIN options THEN options.timeout
                    ELSE DefaultTimeoutMs,
   requestId    |-> 0,
   sessionId    |-> NULL]

\* no instance has been constructed
NoClient ==
  [url |-> <<>>, gatewayToken |-> NULL, backendToken |-> NULL, timeout |-> 0,
   requestId |-> 0, sessionId |-> NULL]

\* a nextRequestId() that hands out the counter without advancing it
SameRequestId(c) == c

\* nextRequestId(): the instance after the increment; the id is its requestId
nextRequestId(c) == [c EXCEPT !.requestId = c.requestId + 1]

buildHeaders(c) ==
  [n \in {"content-type", "accept", "user-agent"}
         \cup (IF Truthy(c.gatewayToken) THEN {"x-authorization"} ELSE {})
         \cup (IF Truthy(c.backendToken) THEN {"authorization"} ELSE {})
         \cup (IF Truthy(c.sessionId) THEN {"mcp-session-id"} ELSE {}) |->
     CASE n = "content-type"    -> <<"application/json">>
       [] n = "accept"          -> <<"application/json, text/event-stream">>
       [] n = "user-agent"      -> <<"mcp-ink-cli/0.1.0">>
       [] n = "x-authorization" -> <<"Bearer ", c.gatewayToken>>
       [] n = "authorization"   -> <<"Bearer ", c.backendToken>>
       [] n = "mcp-session-id"  -> <<c.sessionId>>]

\* the request payloads of the four methods and of the notification
InitializePayload(id) ==
  [jsonrpc |-> "2.0", id |-> id, method |-> "initialize",
   params |-> [protocolVersion |-> "2024-11-05", clientInfo |-> "mcp-ink-cli"]]

PingPayload(id) == [jsonrpc |-> "2.0", id |-> id, method |-> "ping"]

ListToolsPayload(id) == [jsonrpc |-> "2.0", id |-> id, method |-> "tools/list"]

CallToolPayload(id, name, args) ==
  [jsonrpc |-> "2.0", id |-> id, method |-> "tools/call",
   params |-> [name |-> name, arguments |-> args]]

NotificationPayload == [jsonrpc |-> "2.0", method |-> "notifications/initialized"]

\* thrown values
FetchFailed == [name |-> "TypeError", message |-> <<"fetch failed">>]

AbortError == [name |-> "AbortError", message |-> <<"This operation was aborted">>]

JsonSyntaxError == [name |-> "SyntaxError", message |-> <<"Unexpected token">>]

TimeoutError(c) ==
  [name |-> "Error",
   message |-> <<"Request to ">> \o c.url \o <<" timed out after ", ToString(c.timeout), " ms">>]

StatusText(status) ==
  CASE status = 200 -> "OK"
    [] status = 202 -> "Accepted"
    [] status = 403 -> "Forbidden"
    [] status = 500 -> "Internal Server Error"

ResponseOk(status) == status >= 200 /\ status <= 299

\* a body is the sequence of its lines (split at line breaks), a line a
\* sequence of tokens; the empty string is one empty line
EmptyBody == << <<>> >>

BodyText(body) == Join(body, <<"\n">>)

\* JSON.parse of a whole body: line breaks are whitespace
BodyAsLine(body) == Join(body, <<" ">>)

\* an HTTP error that reports the status line only
StatusLineOnly(status, statusText, body) ==
  [name |-> "Error", message |-> <<"HTTP ", ToString(status), " ", statusText, ".">>]

buildHttpError(status, statusText, body) ==
  LET line == BodyAsLine(body)
      json == Parsed(line)
      normalizedBody == IF body # EmptyBody THEN <<" ">> \o Trim(BodyText(body)) ELSE <<>>
  IN IF CanParse(line) /\ "error" \in DOMAIN json
     THEN [name |-> "Error",
           message |-> <<"HTTP ", ToString(status), " ", statusText, ": ">> \o
                       (IF "message" \in DOMAIN json.error
                        THEN <<json.error.message>>
                        ELSE <<"{\"code\":-32601}">>)]
     ELSE [name |-> "Error",
           message |-> <<"HTTP ", ToString(status), " ", statusText, ".">> \o normalizedBody]

RECURSIVE FirstDataLineOnly(_)
\* a decoder that gives up when the first data: line does not parse
FirstDataLineOnly(lines) ==
  IF Len(lines) = 0 THEN SseNoPayload
  ELSE IF Len(lines[1]) > 0 /\ lines[1][1] = "data:"
       THEN (IF CanParse(Tail(lines[1])) THEN Parsed(Tail(lines[1])) ELSE SseNoPayload)
       ELSE FirstDataLineOnly(Tail(lines))

RECURSIVE parseSsePayload(_)
\* the first data: line whose payload parses, else the synthetic error envelope
parseSsePayload(lines) ==
  IF Len(lines) = 0 THEN SseNoPayload
  ELSE LET line == lines[1]
           payload == Trim(Tail(line))
       IN IF Len(line) > 0 /\ line[1] = "data:" /\ Len(payload) > 0 /\ CanParse(payload)
          THEN Parsed(payload)
          ELSE parseSsePayload(Tail(lines))

(***************************************************************************)
(* The gateway as the client sees it: what one fetch can come to.          *)
(***************************************************************************)
\* an mcp-session-id response header: absent, empty, or an identifier
SessionIds == {"s1", "s2"}

HeaderValues == {NULL, ""} \cup SessionIds

Statuses == {200, 403}

\* contentType.includes("text/event-stream")
IsEventStream(contentType) == contentType = "text/event-stream; charset=utf-8"

\* a content-type header ("" when there is none) and a body
Payloads ==
  {[contentType |-> "", body |-> EmptyBody],
   [contentType |-> "", body |-> << <<"{result}">> >>],
   [contentType |-> "application/json", body |-> EmptyBody],
   [contentType |-> "application/json", body |-> << <<"{result}">> >>],
   [contentType |-> "application/json", body |-> << <<" ", "{result+session}">>, <<>> >>],
   [contentType |-> "application/json", body |-> << <<"{error:forbidden}">> >>],
   [contentType |-> "application/json", body |-> << <<"{error:nomessage}">> >>],
   [contentType |-> "text/html", body |-> << <<"<html>">>, <<"Bad Gateway">> >>],
   [contentType |-> "text/event-stream; charset=utf-8", body |-> EmptyBody],
   [contentType |-> "text/event-stream; charset=utf-8",
    body |-> << <<"event: message">>, <<"data:", " ", "{result}">>, <<>>, <<>> >>],
   [contentType |-> "text/event-stream; charset=utf-8",
    body |-> << <<"data:">>, <<"data:", "<html>">>, <<"data:", "{error:forbidden}", " ">> >>],
   [contentType |-> "text/event-stream; charset=utf-8",
    body |-> << <<"event: ping">>, <<"data:", " ">>, <<>> >>]}

\* milliseconds after the fetch started
Times == {10, 40000}

\* a response: its headers arrive at headersMs, its body is read by bodyMs
ResponseOutcomes ==
  {[kind |-> "response", headersMs |-> t[1], bodyMs |-> t[2], status |-> st,
    session |-> sid, contentType |-> p.contentType, body |-> p.body] :
     t \in {u \in Times \X Times : u[1] <= u[2]}, st \in Statuses, sid \in HeaderValues,
     p \in Payloads}

\* the connection fails at once: fetch rejects and there is no response
NetworkFailure ==
  [kind |-> "netfail", headersMs |-> 10, bodyMs |-> 10, status |-> 0,
   session |-> NULL, contentType |-> "", body |-> EmptyBody]

Outcomes == ResponseOutcomes \cup {NetworkFailure}

\* the response's headers reach the client before its timer fires
HeadersReceived(c, o) == o.kind = "response" /\ o.headersMs < c.timeout

(***************************************************************************)
(* McpClient.execute                                                       *)
(***************************************************************************)
\* a try block that tests the body's emptiness before the status
EmptinessFirst(c, ignoreErrors, o) ==
  IF o.kind = "netfail"
  THEN [sessionId |-> c.sessionId, threw |-> TRUE, value |-> FetchFailed]
  ELSE IF ~HeadersReceived(c, o)
  THEN [sessionId |-> c.sessionId, threw |-> TRUE, value |-> AbortError]
  ELSE LET sid == Coalesce(o.session, c.sessionId) IN
    IF ~(o.bodyMs < c.timeout)
    THEN [sessionId |-> sid, threw |-> TRUE, value |-> AbortError]
    ELSE IF o.body = EmptyBody
    THEN [sessionId |-> sid, threw |-> FALSE, value |-> EmptyEnvelope]
    ELSE IF ~ResponseOk(o.status) /\ ~ignoreErrors
    THEN [sessionId |-> sid, threw |-> TRUE,
          value |-> buildHttpError(o.status, StatusText(o.status), o.body)]
    ELSE IF IsEventStream(o.contentType)
    THEN [sessionId |-> sid, threw |-> FALSE, value |-> parseSsePayload(o.body)]
    ELSE IF CanParse(BodyAsLine(o.body))
    THEN [sessionId |-> sid, threw |-> FALSE, value |-> Parsed(BodyAsLine(o.body))]
    ELSE [sessionId |-> sid, threw |-> TRUE, value |-> JsonSyntaxError]

\* the try block: what it leaves in sessionId, and what it returns or throws
ExecuteTry(c, ignoreErrors, o) ==
  IF o.kind = "netfail"
  THEN [sessionId |-> c.sessionId, threw |-> TRUE, value |-> FetchFailed]
  ELSE IF ~HeadersReceived(c, o)
  THEN [sessionId |-> c.sessionId, threw |-> TRUE, value |-> AbortError]
  ELSE LET sid == Coalesce(o.session, c.sessionId) IN
    IF ~(o.bodyMs < c.timeout)
    THEN [sessionId |-> sid, threw |-> TRUE, value |-> AbortError]
    ELSE IF ~ResponseOk(o.status) /\ ~ignoreErrors
    THEN [sessionId |-> sid, threw |-> TRUE,
          value |-> buildHttpError(o.status, StatusText(o.status), o.body)]
    ELSE IF o.body = EmptyBody
    THEN [sessionId |-> sid, threw |-> FALSE, value |-> EmptyEnvelope]
    ELSE IF IsEventStream(o.contentType)
    THEN [sessionId |-> sid, threw |-> FALSE, value |-> parseSsePayload(o.body)]
    ELSE IF CanParse(BodyAsLine(o.body))
    THEN [sessionId |-> sid, threw |-> FALSE, value |-> Parsed(BodyAsLine(o.body))]
    ELSE [sessionId |-> sid, threw |-> TRUE, value |-> JsonSyntaxError]

\* a catch block that rethrows whatever reached it
CatchRethrows(c, ignoreErrors, error) ==
  IF ignoreErrors THEN [threw |-> FALSE, value |-> [jsonrpc |-> "2.0"]]
  ELSE [threw |-> TRUE, value |-> error]

\* the catch block
ExecuteCatch(c, ignoreErrors, error) ==
  IF ignoreErrors THEN [threw |-> FALSE, value |-> EmptyEnvelope]
  ELSE IF error.name = "AbortError" THEN [threw |-> TRUE, value |-> TimeoutError(c)]
  ELSE [threw |-> TRUE, value |-> error]

\* the timer fires before the body has been read: controller.abort()
TimerFires(c, o) == o.kind = "response" /\ ~(o.bodyMs < c.timeout)

\* an execute() that takes the session header only from a response it returns
CaptureOnSuccess(c, ignoreErrors, o) ==
  LET t == ExecuteTry(c, ignoreErrors, o)
      k == ExecuteCatch(c, ignoreErrors, t.value)
  IN [sessionId |-> IF t.threw THEN c.sessionId ELSE t.sessionId,
      threw     |-> IF t.threw THEN k.threw ELSE FALSE,
      value     |-> IF t.threw THEN k.value ELSE t.value,
      aborted   |-> TimerFires(c, o)]

\* execute(payload, options) when its fetch comes to o
execute(c, ignoreErrors, o) ==
  LET t == ExecuteTry(c, ignoreErrors, o)
      k == ExecuteCatch(c, ignoreErrors, t.value)
  IN [sessionId |-> t.sessionId,
      threw     |-> IF t.threw THEN k.threw ELSE FALSE,
      value     |-> IF t.threw THEN k.value ELSE t.value,
      aborted   |-> TimerFires(c, o)]

\* no method of the client is running
IdleOp ==
  [name |-> "none", pc |-> "idle", payload |-> EmptyEnvelope, ignoreErrors |-> FALSE,
   timerArmed |-> FALSE, aborted |-> FALSE, saved |-> EmptyEnvelope,
   value |-> EmptyEnvelope]

RequestEvent(c, payload) ==
  [dir |-> "request", url |-> c.url, payload |-> payload, headers |-> buildHeaders(c)]

ResponseEvent(o) ==
  [dir |-> "response", session |-> o.session, status |-> o.status,
   contentType |-> o.contentType, body |-> o.body]

\* the client drops the connection of a request it has aborted
AbortEvent == [dir |-> "abort"]

\* execute() up to its await: the timer is armed and the request is on the wire
ExecuteStart(c, w, name, payload, ignoreErrors, saved) ==
  [client |-> c,
   op     |-> [name |-> name, pc |-> "wait", payload |-> payload,
               ignoreErrors |-> ignoreErrors, timerArmed |-> TRUE, aborted |-> FALSE,
               saved |-> saved, value |-> EmptyEnvelope],
   wire   |-> Append(w, RequestEvent(c, payload))]

initialize(c, w) ==
  LET c1 == nextRequestId(c) IN
  ExecuteStart(c1, w, "initialize", InitializePayload(c1.requestId), FALSE, EmptyEnvelope)

ping(c, w) ==
  LET c1 == nextRequestId(c) IN
  ExecuteStart(c1, w, "ping", PingPayload(c1.requestId), FALSE, EmptyEnvelope)

listTools(c, w) ==
  LET c1 == nextRequestId(c) IN
  ExecuteStart(c1, w, "listTools", ListToolsPayload(c1.requestId), FALSE, EmptyEnvelope)

callTool(c, w, name, args) ==
  LET c1 == nextRequestId(c) IN
  ExecuteStart(c1, w, "callTool", CallToolPayload(c1.requestId, name, args), FALSE,
               EmptyEnvelope)

\* a notification that drops the result initialize() is holding
NotificationForgetsResult(c, w, saved) ==
  [client |-> c,
   op     |-> [IdleOp EXCEPT !.name = "initialize", !.pc = "wait",
                             !.payload = [jsonrpc |-> "2.0",
                                          method |-> "notifications/initialized"],
                             !.ignoreErrors = TRUE, !.timerArmed = TRUE],
   wire   |-> Append(w, [dir |-> "request", url |-> c.url,
                         payload |-> [jsonrpc |-> "2.0",
                                      method |-> "notifications/initialized"],
                         headers |-> buildHeaders(c)])]

\* an initialize() that returns its result without sending the notification
NotificationSkipped(c, w, saved) ==
  [client |-> c,
   op     |-> [IdleOp EXCEPT !.name = "initialize", !.pc = "returned", !.value = saved],
   wire   |-> w]

\* sendInitializedNotification() up to its await; saved is initialize's result
sendInitializedNotification(c, w, saved) ==
  ExecuteStart(c, w, "initialize", NotificationPayload, TRUE, saved)

\* the op once execute() has settled: finally has cleared the timer
Settled(o, r) ==
  [o EXCEPT !.pc = IF r.threw THEN "threw" ELSE "returned", !.timerArmed = FALSE,
            !.aborted = r.aborted, !.value = r.value]

Fast(o) == o.headersMs = 10 /\ o.bodyMs = 10

JsonResult(o) == o.contentType = "application/json" /\ o.body = << <<"{result}">> >>

\* the fetch outcomes drawn while an agent turn runs (a bound on the inputs)
AgentOutcomes ==
  {o \in Outcomes :
     \/ o.kind = "netfail"
     \/ Fast(o) /\ o.status = 200 /\ o.session = "s1" /\ JsonResult(o)}

\* the fetch outcomes drawn for the last request of a command the operator
\* typed, the requests before it drawing from ClientOutcomes (a bound on the
\* inputs): every session header on a plain result, every payload and
\* status with one session header, the timeouts, the network failure
ShellOutcomes ==
  {o \in Outcomes :
     \/ o.kind = "netfail"
     \/ Fast(o) /\ o.status = 200 /\ JsonResult(o)
     \/ Fast(o) /\ o.session = "s2"
     \/ ~Fast(o) /\ o.status = 200 /\ o.session = "s1" /\ JsonResult(o)}

\* the fetch outcomes drawn for an instance driven through several calls
\* (a bound on the inputs): every session header on a plain result,
\* the timeouts, one HTTP error, the network failure
ClientOutcomes ==
  {o \in Outcomes :
     \/ o.kind = "netfail"
     \/ Fast(o) /\ o.status = 200 /\ JsonResult(o)
     \/ Fast(o) /\ o.status = 403 /\ o.session = "s2" /\ o.contentType = "text/html"
     \/ ~Fast(o) /\ o.status = 200 /\ o.session = "s1" /\ JsonResult(o)}

OutcomesNow ==
  IF agent.pc # "idle" THEN AgentOutcomes
  ELSE IF shell.pc = "probe" THEN (IF Len(wire) = 1 THEN Outcomes ELSE ShellOutcomes)
  ELSE IF shell.pc = "none" THEN ClientOutcomes
  ELSE IF op.payload.method = "notifications/initialized" THEN ClientOutcomes
  ELSE IF op.payload.method = "initialize" /\ mcp.command # "init" THEN ClientOutcomes
  ELSE ShellOutcomes

WireAfter(c, w, o) ==
  (IF HeadersReceived(c, o) THEN Append(w, ResponseEvent(o)) ELSE w)
  \o (IF TimerFires(c, o) THEN <<AbortEvent>> ELSE <<>>)

\* the fetch of ping(), listTools() or callTool() settles
FetchSettles ==
  /\ op.pc = "wait"
  /\ op.name \in {"ping", "listTools", "callTool"}
  /\ \E o \in OutcomesNow :
       LET r == execute(client, op.ignoreErrors, o) IN
       /\ client' = [client EXCEPT !.sessionId = r.sessionId]
       /\ wire' = WireAfter(client, wire, o)
       /\ op' = Settled(op, r)
  /\ UNCHANGED <<mcp, slash, agent, shell>>

\* the fetch of initialize()'s own request settles; on success the
\* notification is sent before initialize() returns
InitializeFetchSettles ==
  /\ op.pc = "wait"
  /\ op.name = "initialize"
  /\ op.payload.method = "initialize"
  /\ \E o \in OutcomesNow :
       LET r  == execute(client, op.ignoreErrors, o)
           c1 == [client EXCEPT !.sessionId = r.sessionId]
           w1 == WireAfter(client, wire, o)
           n  == sendInitializedNotification(c1, w1, r.value)
       IN IF r.threw
          THEN /\ client' = c1
               /\ wire' = w1
               /\ op' = Settled(op, r)
          ELSE /\ client' = n.client
               /\ wire' = n.wire
               /\ op' = n.op
  /\ UNCHANGED <<mcp, slash, agent, shell>>

\* the fetch of the notification settles: whatever it came to, initialize()
\* returns the result of its own request
NotificationFetchSettles ==
  /\ op.pc = "wait"
  /\ op.name = "initialize"
  /\ op.payload.method = "notifications/initialized"
  /\ \E o \in OutcomesNow :
       LET r == execute(client, op.ignoreErrors, o) IN
       /\ client' = [client EXCEPT !.sessionId = r.sessionId]
       /\ wire' = WireAfter(client, wire, o)
       /\ op' = Settled(op, [r EXCEPT !.threw = FALSE, !.value = op.saved])
  /\ UNCHANGED <<mcp, slash, agent, shell>>

(***************************************************************************)
(* JSON.stringify of the envelopes the client can return                   *)
(***************************************************************************)
JsonStringify(v) ==
  CASE v = [jsonrpc |-> "2.0"]                                       -> "{}"
    [] v = [jsonrpc |-> "2.0", result |-> [ok |-> TRUE]]             -> "{result}"
    [] v = [jsonrpc |-> "2.0", result |-> [sessionId |-> "r1"]]      -> "{result+session}"
    [] v = [jsonrpc |-> "2.0", error |-> [message |-> "forbidden"]]  -> "{error:forbidden}"
    [] v = [jsonrpc |-> "2.0", error |-> [code |-> "-32601"]]        -> "{error:nomessage}"
    [] v = SseNoPayload                                              -> "{error:sse}"

(***************************************************************************)
(* executeMcpCommand (cli/src/runtime/mcp.ts)                              *)
(***************************************************************************)
\* the callOptions argument when it is left out
NoCallOptions == [present |-> FALSE, tool |-> NULL, args |-> "{}"]

CallOptions(tool, args) == [present |-> TRUE, tool |-> tool, args |-> args]

IdleMcp ==
  [pc |-> "idle", caller |-> "none", command |-> NULL, callOptions |-> NoCallOptions,
   handshake |-> EmptyEnvelope, response |-> EmptyEnvelope, error |-> FetchFailed]

MissingCallOptions ==
  [name |-> "Error", message |-> <<"Tool name and args are required for /call.">>]

\* new McpClient(...) and client.initialize() up to its await
executeMcpCommand(caller, command, context, callOptions) ==
  LET c == NewMcpClient([url |-> context.gatewayUrl,
                         gatewayToken |-> context.gatewayToken,
                         backendToken |-> context.backendToken])
      i == initialize(c, <<>>)
  IN /\ client' = i.client
     /\ op' = i.op
     /\ wire' = i.wire
     /\ mcp' = [IdleMcp EXCEPT !.pc = "initialize", !.caller = caller,
                               !.command = command, !.callOptions = callOptions]

\* a dispatcher that sends ping whatever initialize() came to
ProceedsAnyway ==
  /\ mcp.pc = "initialize"
  /\ op.name = "initialize"
  /\ op.pc \in {"returned", "threw"}
  /\ LET x == ping(client, wire) IN
       /\ mcp' = [mcp EXCEPT !.pc = "command"]
       /\ client' = x.client /\ op' = x.op /\ wire' = x.wire
  /\ UNCHANGED <<slash, agent, shell>>

\* client.initialize() has settled: the switch on the command
McpAfterInitialize ==
  /\ mcp.pc = "initialize"
  /\ op.name = "initialize"
  /\ op.pc \in {"returned", "threw"}
  /\ IF op.pc = "threw"
     THEN /\ mcp' = [mcp EXCEPT !.pc = "threw", !.error = op.value]
          /\ op' = IdleOp
          /\ UNCHANGED <<client, wire>>
     ELSE LET m == [mcp EXCEPT !.handshake = op.value] IN
       CASE mcp.command = "ping" ->
              LET x == ping(client, wire) IN
              /\ mcp' = [m EXCEPT !.pc = "command"]
              /\ client' = x.client /\ op' = x.op /\ wire' = x.wire
         [] mcp.command = "list" ->
              LET x == listTools(client, wire) IN
              /\ mcp' = [m EXCEPT !.pc = "command"]
              /\ client' = x.client /\ op' = x.op /\ wire' = x.wire
         [] mcp.command = "call" /\ mcp.callOptions.present ->
              LET x == callTool(client, wire, mcp.callOptions.tool, mcp.callOptions.args) IN
              /\ mcp' = [m EXCEPT !.pc = "command"]
              /\ client' = x.client /\ op' = x.op /\ wire' = x.wire
         [] mcp.command = "call" /\ ~mcp.callOptions.present ->
              /\ mcp' = [m EXCEPT !.pc = "threw", !.error = MissingCallOptions]
              /\ op' = IdleOp
              /\ UNCHANGED <<client, wire>>
         [] OTHER ->
              /\ mcp' = [m EXCEPT !.pc = "returned", !.response = op.value]
              /\ op' = IdleOp
              /\ UNCHANGED <<client, wire>>
  /\ UNCHANGED <<slash, agent, shell>>

\* a dispatcher that sends the command's request once more when it has failed
RetryAfterFailure ==
  /\ mcp.pc = "command"
  /\ op.pc \in {"returned", "threw"}
  /\ IF op.pc = "threw" /\ client.requestId < 3
     THEN LET c1 == [client EXCEPT !.requestId = client.requestId + 1]
              x  == ExecuteStart(c1, wire, op.name,
                                 [op.payload EXCEPT !.id = c1.requestId], FALSE,
                                 [jsonrpc |-> "2.0"])
          IN /\ client' = x.client /\ op' = x.op /\ wire' = x.wire
             /\ UNCHANGED mcp
     ELSE /\ mcp' = IF op.pc = "threw"
                    THEN [mcp EXCEPT !.pc = "threw", !.error = op.value]
                    ELSE [mcp EXCEPT !.pc = "returned", !.response = op.value]
          /\ op' = [name |-> "none", pc |-> "idle", payload |-> [jsonrpc |-> "2.0"],
                    ignoreErrors |-> FALSE, timerArmed |-> FALSE, aborted |-> FALSE,
                    saved |-> [jsonrpc |-> "2.0"], value |-> [jsonrpc |-> "2.0"]]
          /\ UNCHANGED <<client, wire>>
  /\ UNCHANGED <<slash, agent, shell>>

\* client.ping(), listTools() or callTool() has settled
McpAfterCommand ==
  /\ mcp.pc = "command"
  /\ op.pc \in {"returned", "threw"}
  /\ mcp' = IF op.pc = "threw"
            THEN [mcp EXCEPT !.pc = "threw", !.error = op.value]
            ELSE [mcp EXCEPT !.pc = "returned", !.response = op.value]
  /\ op' = IdleOp
  /\ UNCHANGED <<client, wire, slash, agent, shell>>

\* formatMcpResult(command, handshake, response, tool): the lines
formatMcpResult(command, handshake, response, tool) ==
  (IF "result" \in DOMAIN handshake /\ "sessionId" \in DOMAIN handshake.result
   THEN << <<"Session established: ", handshake.result.sessionId>> >> ELSE <<>>)
  \o (CASE command = "ping" -> << <<"Ping response:">>, <<JsonStringify(response)>> >>
        [] command = "list" -> << <<"Available tools:">>, <<JsonStringify(response)>> >>
        [] command = "call" -> << <<"Tool ", "\"", tool, "\"", " response:">>,
                                  <<JsonStringify(response)>> >>
        [] command = "init" -> << <<"Initialization payload:">>,
                                  <<JsonStringify(handshake)>> >>
        [] OTHER -> <<>>)

(***************************************************************************)
(* The command resolver (cli/src/chat/commandParser.ts, taskInterpreter.ts)*)
(* An input line is its sequence of words; "/" is the command prefix and   *)
(* " " a blank.                                                            *)
(***************************************************************************)
\* a prefix test that finds no command prefix
NeverSlash(text) == FALSE

StartsWithSlash(text) == Len(text) > 0 /\ text[1] = "/"

RECURSIVE Words(_)
\* the words of a line, without the prefix and the blanks
Words(text) ==
  IF Len(text) = 0 THEN <<>>
  ELSE (IF text[1] \in {"/", " "} THEN <<>> ELSE <<text[1]>>) \o Words(Tail(text))

\* key=value words
WordKey(w) ==
  CASE w \in {"tool=foo", "tool="} -> "tool"
    [] w \in {"args={}", "args={bad"} -> "args"
    [] OTHER -> NULL

WordValue(w) ==
  CASE w = "tool=foo" -> "foo"
    [] w = "tool=" -> ""
    [] w = "args={}" -> "{}"
    [] w = "args={bad" -> "{bad"
    [] OTHER -> NULL

RECURSIVE Field(_, _)
\* the value of the first key=value word with this key, else undefined
Field(words, key) ==
  IF Len(words) = 0 THEN NULL
  ELSE IF WordKey(words[1]) = key THEN WordValue(words[1])
  ELSE Field(Tail(words), key)

TaskCategories == {"service", "import", "user", "diagnostic"}

NoCommand ==
  [kind |-> "unknown", tool |-> NULL, argsJson |-> NULL, category |-> NULL,
   key |-> NULL, rawArgs |-> <<>>, message |-> <<>>]

parseCommand(input) ==
  LET w == Words(input) IN
  IF Len(w) = 0
  THEN [NoCommand EXCEPT !.message = <<"Unknown command. Type /help.">>]
  ELSE CASE w[1] \in {"help", "ping", "list", "init"} -> [NoCommand EXCEPT !.kind = w[1]]
         [] w[1] = "call" ->
              [NoCommand EXCEPT !.kind = "call", !.tool = Field(Tail(w), "tool"),
                                !.argsJson = Field(Tail(w), "args")]
         [] w[1] \in TaskCategories ->
              [NoCommand EXCEPT !.kind = "task", !.category = w[1],
                                !.key = IF Len(w) > 1 THEN w[2] ELSE NULL,
                                !.rawArgs = IF Len(w) > 2 THEN SubSeq(w, 3, Len(w)) ELSE <<>>]
         [] OTHER -> [NoCommand EXCEPT !.message = <<"Unknown command: ", w[1]>>]

\* the task keys the catalog knows, per category
TaskKeys(category) ==
  CASE category = "service" -> {"list-groups", "monitor"}
    [] category = "diagnostic" -> {"run-suite"}
    [] OTHER -> {}

\* resolveTaskCommand: an error line, or the task to run
resolveTaskCommand(parsed) ==
  IF parsed.key \in TaskKeys(parsed.category)
  THEN [error |-> <<>>, task |-> <<parsed.category, "-", parsed.key>>]
  ELSE [error |-> <<"Unknown task for /", parsed.category>>, task |-> <<>>]

\* what the external task runner can hand back; exitCode is <<>> when the
\* process gave none
TaskResults ==
  {[command |-> <<"bash", " ", "service_mgmt.sh">>, stdout |-> <<"done", "\n">>,
    stderr |-> <<>>, exitCode |-> <<0>>],
   [command |-> <<"bash", " ", "service_mgmt.sh">>, stdout |-> <<>>,
    stderr |-> <<"boom">>, exitCode |-> <<1>>],
   [command |-> <<"bash", " ", "service_mgmt.sh">>, stdout |-> <<"partial">>,
    stderr |-> <<>>, exitCode |-> <<>>]}

\* a JSON.parse that accepts any text
AnyArgsValid(text) == TRUE

\* JSON.parse of the args of a /call
ArgsJsonValid(text) == text \in {"{}"}

(***************************************************************************)
(* executeSlashCommand (cli/src/commands/executor.ts)                      *)
(***************************************************************************)
IdleSlash ==
  [pc |-> "idle", caller |-> "none", parsed |-> NoCommand, lines |-> <<>>,
   isError |-> FALSE, error |-> FetchFailed]

overviewMessage == <<"Available commands:">>

\* a result returned without awaiting anything
SlashReturns(caller, parsed, lines, isError) ==
  /\ slash' = [IdleSlash EXCEPT !.pc = "returned", !.caller = caller, !.parsed = parsed,
                                !.lines = lines, !.isError = isError]
  /\ UNCHANGED <<client, op, wire, mcp>>

\* an executeCall that hands the tool name on unchecked
executeCallUnchecked(caller, parsed, context) ==
  /\ slash' = [IdleSlash EXCEPT !.pc = "mcp", !.caller = caller, !.parsed = parsed]
  /\ executeMcpCommand("executeCall", "call", context, CallOptions(parsed.tool, "{}"))

\* executeCall up to its await, or to its return
executeCall(caller, parsed, context) ==
  IF ~Truthy(parsed.tool)
  THEN SlashReturns(caller, parsed, << <<"Tool name is required for /call.">> >>, TRUE)
  ELSE IF Truthy(parsed.argsJson) /\ ~ArgsJsonValid(parsed.argsJson)
  THEN SlashReturns(caller, parsed,
                    << <<"Invalid JSON for args: ">> \o JsonSyntaxError.message >>, TRUE)
  ELSE /\ slash' = [IdleSlash EXCEPT !.pc = "mcp", !.caller = caller, !.parsed = parsed]
       /\ executeMcpCommand("executeCall", "call", context,
            CallOptions(parsed.tool,
                        IF Truthy(parsed.argsJson) THEN parsed.argsJson ELSE "{}"))

\* executeMcp up to its await
executeMcp(caller, parsed, context) ==
  /\ slash' = [IdleSlash EXCEPT !.pc = "mcp", !.caller = caller, !.parsed = parsed]
  /\ executeMcpCommand("executeMcp", parsed.kind, context, NoCallOptions)

\* a dispatcher that runs a task without looking at the resolution's error
RunsUnresolvedTask(caller, input, context) ==
  LET parsed == parseCommand(input) IN
  CASE parsed.kind = "help" -> SlashReturns(caller, parsed, <<overviewMessage>>, FALSE)
    [] parsed.kind \in {"ping", "list", "init"} -> executeMcp(caller, parsed, context)
    [] parsed.kind = "call" -> executeCall(caller, parsed, context)
    [] parsed.kind = "task" ->
         /\ slash' = [IdleSlash EXCEPT !.pc = "task", !.caller = caller, !.parsed = parsed]
         /\ UNCHANGED <<client, op, wire, mcp>>
    [] OTHER -> SlashReturns(caller, parsed, <<parsed.message>>, TRUE)

\* executeSlashCommand(input, context) up to its first await, or to its return
executeSlashCommand(caller, input, context) ==
  LET parsed == parseCommand(input) IN
  CASE parsed.kind = "help" -> SlashReturns(caller, parsed, <<overviewMessage>>, FALSE)
    [] parsed.kind \in {"ping", "list", "init"} -> executeMcp(caller, parsed, context)
    [] parsed.kind = "call" -> executeCall(caller, parsed, context)
    [] parsed.kind = "task" ->
         LET resolution == resolveTaskCommand(parsed) IN
         IF resolution.error # <<>>
         THEN SlashReturns(caller, parsed, <<resolution.error>>, TRUE)
         ELSE /\ slash' = [IdleSlash EXCEPT !.pc = "task", !.caller = caller,
                                            !.parsed = parsed]
              /\ UNCHANGED <<client, op, wire, mcp>>
    [] OTHER -> SlashReturns(caller, parsed, <<parsed.message>>, TRUE)

\* the lines of a finished task
TaskLines(result) ==
  LET parts == << <<"$ ">> \o result.command,
                  Trim(result.stdout),
                  IF result.stderr # <<>> THEN <<"stderr:", "\n">> \o Trim(result.stderr)
                  ELSE <<>>,
                  <<"exitCode: ",
                    ToString(IF result.exitCode = <<>> THEN 0 ELSE result.exitCode[1])>> >>
      kept == [i \in 1..4 |-> Len(Trim(parts[i])) > 0]
      pick(i) == IF kept[i] THEN <<parts[i]>> ELSE <<>>
  IN << Join(pick(1) \o pick(2) \o pick(3) \o pick(4), <<"\n", "\n">>) >>

\* executeMcpCommand has settled inside executeMcp or executeCall: neither
\* catches, so what it threw leaves executeSlashCommand
SlashAfterMcp ==
  /\ slash.pc = "mcp"
  /\ mcp.pc \in {"returned", "threw"}
  /\ slash' = IF mcp.pc = "threw"
              THEN [slash EXCEPT !.pc = "threw", !.error = mcp.error]
              ELSE [slash EXCEPT !.pc = "returned",
                      !.lines = formatMcpResult(slash.parsed.kind, mcp.handshake,
                                                mcp.response, slash.parsed.tool)]
  /\ mcp' = IdleMcp
  /\ UNCHANGED <<client, op, wire, agent, shell>>

\* a task step that flags a result whose exit code is not 0
FlagsNonZeroExit ==
  /\ slash.pc = "task"
  /\ \E result \in TaskResults :
       slash' = [slash EXCEPT !.pc = "returned", !.lines = TaskLines(result),
                              !.isError = result.exitCode \notin {<<>>, <<0>>}]
  /\ UNCHANGED <<client, op, wire, mcp, agent, shell>>

\* runScriptTaskToString has settled
SlashAfterTask ==
  /\ slash.pc = "task"
  /\ \E result \in TaskResults :
       slash' = [slash EXCEPT !.pc = "returned", !.lines = TaskLines(result)]
  /\ UNCHANGED <<client, op, wire, mcp, agent, shell>>

(***************************************************************************)
(* The agent's tools (cli/src/agent/tools.ts)                              *)
(***************************************************************************)
\* the input object of a tool_use block: a field left out is undefined;
\* line is the command text of a registry_task
NoInput == [command |-> NULL, tool |-> NULL, args |-> NULL, line |-> <<>>]

TextBlock(text) ==
  [type |-> "text", text |-> text, id |-> 0, name |-> NULL, input |-> NoInput]

ToolUse(name, input) ==
  [type |-> "tool_use", text |-> <<>>, id |-> 0, name |-> name, input |-> input]

\* a mapping that takes every tool that is not mcp_command for a task
TreatAsTask(tool) ==
  IF tool.name = "mcp_command"
  THEN [type |-> "mcp", name |-> tool.name, input |-> tool.input]
  ELSE [type |-> "task", name |-> tool.name, input |-> tool.input]

mapToolCall(tool) ==
  IF tool.name = "mcp_command"
  THEN [type |-> "mcp", name |-> tool.name, input |-> tool.input]
  ELSE IF tool.name = "registry_task"
  THEN [type |-> "task", name |-> tool.name, input |-> tool.input]
  ELSE [type |-> "unknown", name |-> tool.name, input |-> tool.input]

\* a normalisation that puts the prefix before whatever the text holds
AlwaysPrefixed(line) == <<"/">> \o Trim(line)

\* the command text of a registry_task, trimmed and given the prefix
NormalizeCommandText(line) ==
  IF StartsWithSlash(Trim(line)) THEN Trim(line) ELSE <<"/">> \o Trim(line)

\* JSON.stringify({handshake, response}, null, 2)
McpOutput(handshake, response) ==
  <<"{handshake:", JsonStringify(handshake), ",response:", JsonStringify(response), "}">>

NoTool == [pc |-> "idle", output |-> <<>>, isError |-> FALSE]

ToolReturns(output, isError) == [pc |-> "returned", output |-> output, isError |-> isError]

(***************************************************************************)
(* runAgentTurn (cli/src/agent/agentRunner.ts)                             *)
(***************************************************************************)
\* while (toolIteration < 5)
MaxToolIterations == 5

ToolLimitMessage == <<"Reached tool usage limit without final response.">>

Message(role, text) == [role |-> role, text |-> text, blocks |-> <<>>]

\* an assistant entry that keeps only the text blocks of the response
TextBlocksOnly(content) ==
  [role |-> "assistant", text |-> <<>>,
   blocks |-> SelectSeq(content, LAMBDA b : b.type = "text")]

AssistantEntry(content) == [role |-> "assistant", text |-> <<>>, blocks |-> content]

\* a tool_result entry that names no tool_use
UncorrelatedResult(id, output) ==
  [role |-> "user", text |-> <<>>,
   blocks |-> << [type |-> "tool_result", tool_use_id |-> 0, content |-> output] >>]

ToolResultEntry(id, output) ==
  [role |-> "user", text |-> <<>>,
   blocks |-> << [type |-> "tool_result", tool_use_id |-> id, content |-> output] >>]

RECURSIVE LastCallFirst(_)
\* the tool_use blocks taken from the end of the response to its start
LastCallFirst(blocks) ==
  IF Len(blocks) = 0 THEN <<>>
  ELSE LastCallFirst(Tail(blocks))
       \o (IF blocks[1].type = "tool_use" THEN <<blocks[1]>> ELSE <<>>)

RECURSIVE ToolCalls(_)
\* outputBlocks.filter((block) => block.type === "tool_use")
ToolCalls(blocks) ==
  IF Len(blocks) = 0 THEN <<>>
  ELSE (IF blocks[1].type = "tool_use" THEN <<blocks[1]>> ELSE <<>>)
       \o ToolCalls(Tail(blocks))

RECURSIVE TextsOf(_)
\* the texts of the text blocks, in order
TextsOf(blocks) ==
  IF Len(blocks) = 0 THEN <<>>
  ELSE (IF blocks[1].type = "text" THEN <<blocks[1].text>> ELSE <<>>)
       \o TextsOf(Tail(blocks))

\* the texts put end to end
ConcatContent(blocks) == Flatten(TextsOf(blocks))

\* textBlocks.map(...).join("\n")
FinalContent(blocks) == Join(TextsOf(blocks), <<"\n">>)

\* a filter that keeps every entry of the history
AllEntries(history) == history

RECURSIVE ChatEntries(_)
\* history.filter(user or assistant).map({role, content})
ChatEntries(history) ==
  IF Len(history) = 0 THEN <<>>
  ELSE (IF history[1].role \in {"user", "assistant"} THEN <<history[1]>> ELSE <<>>)
       \o ChatEntries(Tail(history))

\* the conversation before the first model request
InitialConversation(history) ==
  IF Len(ChatEntries(history)) = 0
  THEN << Message("user", <<"Hello.">>) >>
  ELSE ChatEntries(history)

IdleAgent ==
  [pc |-> "idle", toolIteration |-> 0, conversation |-> <<>>, sent |-> <<>>,
   providerCalls |-> 0, calls |-> <<>>, k |-> 0, tool |-> NoTool,
   finalMessages |-> <<>>, toolOutputs |-> <<>>, error |-> FetchFailed,
   outputBlocks |-> <<>>, script |-> <<>>]

\* the request to the provider: the conversation as it is sent
ModelRequest(a) ==
  [a EXCEPT !.pc = "model", !.sent = a.conversation,
            !.providerCalls = a.providerCalls + 1]

\* a return that adds the tool-limit message whatever the iteration count
AlwaysLimitMessage(a) ==
  [a EXCEPT !.pc = "returned",
            !.finalMessages = Append(a.finalMessages, Message("assistant", ToolLimitMessage))]

\* the statements after the while loop, and the return
AfterLoop(a) ==
  [a EXCEPT !.pc = "returned",
            !.finalMessages =
               IF a.toolIteration >= MaxToolIterations
               THEN Append(a.finalMessages, Message("assistant", ToolLimitMessage))
               ELSE a.finalMessages]

\* runAgentTurn(history, config) up to its first await
runAgentTurn(history) ==
  ModelRequest([IdleAgent EXCEPT !.conversation = InitialConversation(history)])

(***************************************************************************)
(* The language-model provider: what one response can hold                 *)
(***************************************************************************)
\* the longest text-only response drawn
MaxTextBlocks == 2

Texts == {<<"a">>, <<"b">>}

TextOnlyResponses ==
  UNION {[1..n -> {TextBlock(t) : t \in Texts}] : n \in 0..MaxTextBlocks}

McpInput(command, tool) == [NoInput EXCEPT !.command = command, !.tool = tool, !.args = "{}"]

TaskInput(line) == [NoInput EXCEPT !.line = line]

ToolResponses ==
  {<< ToolUse("mcp_command", McpInput("ping", NULL)) >>,
   << TextBlock(<<"a">>), ToolUse("registry_task", TaskInput(<<"/", "ping">>)),
      ToolUse("mcp_command", McpInput("call", NULL)) >>,
   << ToolUse("shell_exec", NoInput), ToolUse("mcp_command", McpInput("", NULL)),
      ToolUse("registry_task", TaskInput(<<" ", "service", "list-groups">>)) >>,
   << ToolUse("mcp_command", NoInput), TextBlock(<<"b">>),
      ToolUse("registry_task", TaskInput(<<"call">>)) >>,
   << ToolUse("mcp_command", McpInput("status", NULL)) >>}

\* the responses the provider can give next (a bound on the inputs): any
\* text-only response, and one tool-using response per turn, which the
\* provider may repeat (with new ids) as often as it is asked
ProviderResponses(a) ==
  TextOnlyResponses \cup (IF a.script = <<>> THEN ToolResponses ELSE {a.script})

\* the provider gives every tool_use block an id of its own
StampIds(content, n) ==
  [i \in 1..Len(content) |->
     IF content[i].type = "tool_use" THEN [content[i] EXCEPT !.id = 10 * n + i]
     ELSE content[i]]

ProviderError == [name |-> "APIConnectionError", message |-> <<"Connection error.">>]

\* a provider step that tests the iteration cap before running the tools
CapBeforeTools ==
  /\ agent.pc = "model"
  /\ \E r \in ProviderResponses(agent) :
       LET content == StampIds(r, agent.providerCalls)
           toolCalls == ToolCalls(content)
       IN IF Len(toolCalls) = 0
          THEN agent' = AfterLoop([agent EXCEPT !.outputBlocks = content,
                          !.finalMessages =
                             Append(@, Message("assistant", FinalContent(content)))])
          ELSE IF agent.toolIteration + 1 >= MaxToolIterations
          THEN agent' = AfterLoop([agent EXCEPT !.toolIteration = @ + 1, !.script = r,
                                                !.outputBlocks = content,
                                                !.conversation = Append(@, AssistantEntry(content))])
          ELSE agent' = [agent EXCEPT !.pc = "tools", !.calls = toolCalls, !.k = 1,
                                      !.tool = NoTool, !.script = r,
                                      !.outputBlocks = content,
                                      !.conversation = Append(@, AssistantEntry(content))]
  /\ UNCHANGED <<client, op, wire, mcp, slash, shell>>

\* the provider answers the request
ModelResponds ==
  /\ agent.pc = "model"
  /\ \E r \in ProviderResponses(agent) :
       LET content == StampIds(r, agent.providerCalls)
           toolCalls == ToolCalls(content)
       IN IF Len(toolCalls) = 0
          THEN agent' = AfterLoop([agent EXCEPT !.outputBlocks = content,
                          !.finalMessages =
                             Append(@, Message("assistant", FinalContent(content)))])
          ELSE agent' = [agent EXCEPT !.pc = "tools", !.calls = toolCalls, !.k = 1,
                                      !.tool = NoTool, !.script = r,
                                      !.outputBlocks = content,
                                      !.conversation = Append(@, AssistantEntry(content))]
  /\ UNCHANGED <<client, op, wire, mcp, slash, shell>>

\* the request to the provider fails: nothing in runAgentTurn catches it
ProviderFails ==
  /\ agent.pc = "model"
  /\ agent' = [agent EXCEPT !.pc = "threw", !.error = ProviderError]
  /\ UNCHANGED <<client, op, wire, mcp, slash, shell>>

\* mapToolCall and executeMappedTool for the next call, up to the first
\* await or to the return
executeMappedTool ==
  /\ agent.pc = "tools"
  /\ agent.tool.pc = "idle"
  /\ LET invocation == mapToolCall(agent.calls[agent.k])
         input == invocation.input
     IN CASE invocation.type = "mcp" /\ ~Truthy(input.command) ->
               /\ agent' = [agent EXCEPT !.tool = ToolReturns(<<"Missing command field">>, TRUE)]
               /\ UNCHANGED <<client, op, wire, mcp, slash>>
          [] invocation.type = "mcp" /\ Truthy(input.command) ->
               /\ agent' = [agent EXCEPT !.tool.pc = "mcp"]
               /\ executeMcpCommand("executeMappedTool", input.command, shell.context,
                    IF Truthy(input.tool)
                    THEN CallOptions(input.tool, IF input.args # NULL THEN input.args ELSE "{}")
                    ELSE NoCallOptions)
               /\ UNCHANGED slash
          [] invocation.type = "task" ->
               /\ agent' = [agent EXCEPT !.tool.pc = "slash"]
               /\ executeSlashCommand("agent", NormalizeCommandText(input.line), shell.context)
          [] OTHER ->
               /\ agent' = [agent EXCEPT !.tool =
                    ToolReturns(<<"Unknown tool invocation: ", invocation.name>>, TRUE)]
               /\ UNCHANGED <<client, op, wire, mcp, slash>>
  /\ UNCHANGED shell

\* executeMcpCommand has settled inside executeMappedTool's try
ToolAfterMcp ==
  /\ agent.pc = "tools"
  /\ agent.tool.pc = "mcp"
  /\ mcp.pc \in {"returned", "threw"}
  /\ agent' = [agent EXCEPT !.tool =
                 IF mcp.pc = "threw" THEN ToolReturns(mcp.error.message, TRUE)
                 ELSE ToolReturns(McpOutput(mcp.handshake, mcp.response), FALSE)]
  /\ mcp' = IdleMcp
  /\ UNCHANGED <<client, op, wire, slash, shell>>

\* executeSlashCommand has settled inside executeMappedTool, outside any try
ToolAfterSlash ==
  /\ agent.pc = "tools"
  /\ agent.tool.pc = "slash"
  /\ slash.pc \in {"returned", "threw"}
  /\ agent' = IF slash.pc = "threw"
              THEN [agent EXCEPT !.pc = "threw", !.error = slash.error]
              ELSE [agent EXCEPT !.tool =
                      ToolReturns(Join(slash.lines, <<"\n">>), slash.isError)]
  /\ UNCHANGED <<client, op, wire, mcp, slash, shell>>

\* the rest of the for body, and what follows the last call of a response
AgentToolSettles ==
  /\ agent.pc = "tools"
  /\ agent.tool.pc = "returned"
  /\ LET call == agent.calls[agent.k]
         a == [agent EXCEPT
                 !.toolOutputs = Append(@, [name |-> call.name, output |-> agent.tool.output,
                                            isError |-> agent.tool.isError]),
                 !.conversation = Append(@, ToolResultEntry(call.id, agent.tool.output)),
                 !.tool = NoTool]
     IN IF agent.k < Len(agent.calls)
        THEN agent' = [a EXCEPT !.k = agent.k + 1]
        ELSE LET b == [a EXCEPT !.toolIteration = a.toolIteration + 1, !.calls = <<>>,
                                !.k = 0]
             IN agent' = IF b.toolIteration < MaxToolIterations THEN ModelRequest(b)
                         ELSE AfterLoop(b)
  /\ slash' = IdleSlash
  /\ client' = NoClient
  /\ wire' = <<>>
  /\ UNCHANGED <<op, mcp, shell>>

(***************************************************************************)
(* The interactive shell: authentication and handleSubmit                  *)
(***************************************************************************)
\* the gateway URL and the tokens authentication resolved
Contexts ==
  {[gatewayUrl |-> <<"http://localhost/mcpgw/mcp">>, gatewayToken |-> NULL,
    backendToken |-> NULL],
   [gatewayUrl |-> <<"https://gw.example/mcp", "/">>, gatewayToken |-> "gw-token",
    backendToken |-> "be-token"]}

\* authState before authentication has resolved
NoContext == [gatewayUrl |-> <<>>, gatewayToken |-> NULL, backendToken |-> NULL]

\* what the operator submits: slash commands, free text, blanks
SlashInputs ==
  {<<"/", "retry">>, <<"/", "help">>, <<"/", "ping">>, <<"/", "list">>, <<"/", "init">>,
   <<"/", "call", "tool=foo", "args={}">>, <<"/", "call", "tool=foo">>,
   <<"/", "call">>, <<"/", "call", "tool=", "args={}">>,
   <<"/", "call", "tool=foo", "args={bad">>,
   <<"/", "service", "list-groups">>, <<"/", "service", "bogus">>, <<"/", "bogus">>}

FreeTexts == {<<"list", " ", "the", " ", "tools">>, <<" ">>}

WelcomeMessage == Message("system", <<"Welcome to the MCP Registry chat CLI.">>)

\* buildAgentHistory([...messages, userMessage])
AgentHistory(value) ==
  << WelcomeMessage, Message("assistant", <<"Authenticated against the gateway">>),
     Message("user", value) >>

AgentDisabledMessage == Message("assistant", <<"Agent mode is disabled.">>)

\* resolveAuth settles: the state is ready with its context, or an error; once
\* ready, the effect that follows adds the summary lines
AuthResolves ==
  /\ shell.auth = "loading"
  /\ \/ \E context \in Contexts :
          shell' = [shell EXCEPT !.auth = "ready", !.context = context,
                       !.initialised = TRUE,
                       !.added = Append(@, Message("assistant",
                                                   <<"Authenticated against the gateway">>))]
     \/ shell' = [shell EXCEPT !.auth = "error"]
  /\ UNCHANGED <<client, op, wire, mcp, slash, agent>>

\* a handleSubmit that does not look at the authentication state
SubmitWithoutAuthTest ==
  /\ shell.pc = "idle"
  /\ \E value \in SlashInputs \cup FreeTexts :
       LET trimmed == Trim(value)
           user == << Message("user", trimmed) >>
       IN
       IF Len(trimmed) = 0
       THEN UNCHANGED vars
       ELSE IF trimmed = <<"/", "retry">>
       THEN /\ shell' = [shell EXCEPT !.auth = "loading", !.context = NoContext,
                            !.initialised = FALSE,
                            !.added = Append(user, Message("assistant",
                                                           <<"Retrying authentication...">>))]
            /\ UNCHANGED <<client, op, wire, mcp, slash, agent>>
       ELSE IF StartsWithSlash(trimmed)
       THEN /\ shell' = [shell EXCEPT !.pc = "slash", !.busy = TRUE, !.added = user]
            /\ executeSlashCommand("shell", trimmed, shell.context)
            /\ UNCHANGED agent
       ELSE IF ~shell.agentAvailable
       THEN /\ shell' = [shell EXCEPT !.added = Append(user, AgentDisabledMessage)]
            /\ UNCHANGED <<client, op, wire, mcp, slash, agent>>
       ELSE /\ shell' = [shell EXCEPT !.pc = "agent", !.busy = TRUE, !.added = user]
            /\ agent' = runAgentTurn(AgentHistory(trimmed))
            /\ UNCHANGED <<client, op, wire, mcp, slash>>

\* handleSubmit(value) up to its first await, or to its return; added holds
\* the messages this submit has added
HandleSubmit ==
  /\ shell.pc = "idle"
  /\ \E value \in SlashInputs \cup FreeTexts :
       LET trimmed == Trim(value)
           user == << Message("user", trimmed) >>
       IN
       IF Len(trimmed) = 0
       THEN UNCHANGED vars
       ELSE IF trimmed = <<"/", "retry">>
       THEN /\ shell' = [shell EXCEPT !.auth = "loading", !.context = NoContext,
                            !.initialised = FALSE,
                            !.added = Append(user, Message("assistant",
                                                           <<"Retrying authentication...">>))]
            /\ UNCHANGED <<client, op, wire, mcp, slash, agent>>
       ELSE IF shell.auth # "ready"
       THEN /\ shell' = [shell EXCEPT !.added =
                            Append(user, Message("assistant",
                                                 <<"Authentication is not ready yet.">>))]
            /\ UNCHANGED <<client, op, wire, mcp, slash, agent>>
       ELSE IF StartsWithSlash(trimmed)
       THEN /\ shell' = [shell EXCEPT !.pc = "slash", !.busy = TRUE, !.added = user]
            /\ executeSlashCommand("shell", trimmed, shell.context)
            /\ UNCHANGED agent
       ELSE IF ~shell.agentAvailable
       THEN /\ shell' = [shell EXCEPT !.added = Append(user, AgentDisabledMessage)]
            /\ UNCHANGED <<client, op, wire, mcp, slash, agent>>
       ELSE /\ shell' = [shell EXCEPT !.pc = "agent", !.busy = TRUE, !.added = user]
            /\ agent' = runAgentTurn(AgentHistory(trimmed))
            /\ UNCHANGED <<client, op, wire, mcp, slash>>

\* executeSlashCommand has settled inside handleSubmit's try
SubmitAfterSlash ==
  /\ shell.pc = "slash"
  /\ slash.caller = "shell"
  /\ slash.pc \in {"returned", "threw"}
  /\ shell' = [shell EXCEPT !.pc = "idle", !.busy = FALSE,
                 !.added = shell.added \o
                           IF slash.pc = "threw"
                           THEN << Message("assistant",
                                           <<"Command failed: ">> \o slash.error.message) >>
                           ELSE << Message(IF slash.isError THEN "assistant" ELSE "tool",
                                           Join(slash.lines, <<"\n">>)) >>]
  /\ slash' = IdleSlash
  /\ client' = NoClient
  /\ wire' = <<>>
  /\ UNCHANGED <<op, mcp, agent>>

\* the messages handleSubmit adds for the tool outputs of a turn
ToolMessages(toolOutputs) ==
  [i \in 1..Len(toolOutputs) |->
     Message("tool",
             <<toolOutputs[i].name>>
             \o (IF toolOutputs[i].isError THEN <<" (error)">> ELSE <<>>)
             \o <<" ->", "\n">> \o toolOutputs[i].output)]

\* runAgentTurn has settled inside handleSubmit's try
SubmitAfterAgent ==
  /\ shell.pc = "agent"
  /\ agent.pc \in {"returned", "threw"}
  /\ shell' = [shell EXCEPT !.pc = "idle", !.busy = FALSE,
                 !.added = shell.added \o
                           IF agent.pc = "threw"
                           THEN << Message("assistant",
                                           <<"Agent error: ">> \o agent.error.message) >>
                           ELSE ToolMessages(agent.toolOutputs)
                                \o (IF Len(agent.finalMessages) = 0
                                    THEN << Message("assistant",
                                                    <<"No response from the agent.">>) >>
                                    ELSE agent.finalMessages)]
  /\ agent' = IdleAgent
  /\ slash' = IdleSlash
  /\ client' = NoClient
  /\ wire' = <<>>
  /\ UNCHANGED <<op, mcp>>

(***************************************************************************)
(* The program                                                             *)
(***************************************************************************)
Init ==
  /\ client = NoClient
  /\ op = IdleOp
  /\ wire = <<>>
  /\ mcp = IdleMcp
  /\ slash = IdleSlash
  /\ agent = IdleAgent
  /\ shell \in [pc : {"idle"}, busy : {FALSE}, added : {<<>>}, auth : {"loading"},
                context : {NoContext}, initialised : {FALSE}, agentAvailable : BOOLEAN]

Next ==
  \/ AuthResolves
  \/ HandleSubmit
  \/ SubmitAfterSlash
  \/ SubmitAfterAgent
  \/ SlashAfterMcp
  \/ SlashAfterTask
  \/ McpAfterInitialize
  \/ McpAfterCommand
  \/ InitializeFetchSettles
  \/ NotificationFetchSettles
  \/ FetchSettles
  \/ ModelResponds
  \/ ProviderFails
  \/ executeMappedTool
  \/ ToolAfterMcp
  \/ ToolAfterSlash
  \/ AgentToolSettles

Spec == Init /\ [][Next]_vars

(***************************************************************************)
(* One McpClient instance driven directly through its public methods       *)
(***************************************************************************)
\* the method calls made on the instance
MaxClientCalls == 2

ClientOptions ==
  {[url |-> <<"http://localhost/mcpgw/mcp">>, gatewayToken |-> NULL, backendToken |-> NULL],
   [url |-> <<"https://gw.example/mcp", "/">>, gatewayToken |-> "gw-token",
    backendToken |-> "", timeout |-> 15000]}

ClientInit ==
  /\ client \in {NewMcpClient(options) : options \in ClientOptions}
  /\ op = IdleOp
  /\ wire = <<>>
  /\ mcp = IdleMcp
  /\ slash = IdleSlash
  /\ agent = IdleAgent
  /\ shell = [pc |-> "none", busy |-> FALSE, added |-> <<>>, auth |-> "loading",
              context |-> NoContext, initialised |-> FALSE, agentAvailable |-> FALSE]

\* a caller awaits one of the four methods
ClientCall ==
  /\ op.pc \in {"idle", "returned", "threw"}
  /\ client.requestId < MaxClientCalls
  /\ \E x \in {initialize(client, wire), ping(client, wire), listTools(client, wire),
               callTool(client, wire, "foo", "{}")} :
       /\ client' = x.client
       /\ op' = x.op
       /\ wire' = x.wire
  /\ UNCHANGED <<mcp, slash, agent, shell>>

ClientNext ==
  \/ ClientCall
  \/ InitializeFetchSettles
  \/ NotificationFetchSettles
  \/ FetchSettles

ClientSpec == ClientInit /\ [][ClientNext]_vars

(***************************************************************************)
(* One method call on a new McpClient instance, its fetch drawn from every *)
(* outcome                                                                 *)
(***************************************************************************)
ExecuteInit ==
  /\ client \in {NewMcpClient(options) : options \in ClientOptions}
  /\ op = IdleOp
  /\ wire = <<>>
  /\ mcp = IdleMcp
  /\ slash = IdleSlash
  /\ agent = IdleAgent
  /\ shell = [pc |-> "probe", busy |-> FALSE, added |-> <<>>, auth |-> "loading",
              context |-> NoContext, initialised |-> FALSE, agentAvailable |-> FALSE]

\* a caller awaits one of the four methods of the new instance
ExecuteCall ==
  /\ op.pc = "idle"
  /\ \E x \in {initialize(client, wire), ping(client, wire), listTools(client, wire),
               callTool(client, wire, "foo", "{}")} :
       /\ client' = x.client
       /\ op' = x.op
       /\ wire' = x.wire
  /\ UNCHANGED <<mcp, slash, agent, shell>>

ExecuteNext ==
  \/ ExecuteCall
  \/ InitializeFetchSettles
  \/ NotificationFetchSettles
  \/ FetchSettles

ExecuteSpec == ExecuteInit /\ [][ExecuteNext]_vars

(***************************************************************************)
(* The interactive shell with overlapping submits.  The text input stays   *)
(* mounted while a turn runs and handleSubmit does not look at busy, so a  *)
(* submit can arrive while earlier ones await.  Here every handleSubmit    *)
(* activation that has reached its await is an entry of shell.turns; what  *)
(* it awaits (executeSlashCommand, runAgentTurn) is taken by its outcome.  *)
(***************************************************************************)
\* the most handleSubmit activations awaiting at once
MaxTurns == 2

\* the most submits of one run
MaxSubmits == 3

TurnInputs ==
  {<<"/", "ping", " ">>, <<"/", "retry">>, <<"list", " ", "the", " ", "tools">>, <<" ">>}

\* how an awaited executeSlashCommand or runAgentTurn can settle
TurnOutcomes == {"result", "errorResult", "threw"}

TurnsInit ==
  /\ client = NoClient
  /\ op = IdleOp
  /\ wire = <<>>
  /\ mcp = IdleMcp
  /\ slash = IdleSlash
  /\ agent = IdleAgent
  /\ shell \in [pc : {"turns"}, busy : {FALSE}, added : {<<>>}, auth : {"loading"},
                context : {NoContext}, initialised : {FALSE}, agentAvailable : BOOLEAN,
                turns : {<<>>}, submits : {0}]

\* handleSubmit(value) up to its first await, or to its return, whatever
\* else is in flight
SubmitAnytime ==
  /\ shell.pc = "turns"
  /\ shell.submits < MaxSubmits
  /\ Len(shell.turns) < MaxTurns
  /\ \E value \in TurnInputs :
       LET trimmed == Trim(value)
           user == Message("user", trimmed)
           s == [shell EXCEPT !.submits = shell.submits + 1]
       IN
       IF Len(trimmed) = 0
       THEN shell' = s
       ELSE IF trimmed = <<"/", "retry">>
       THEN shell' = [s EXCEPT !.auth = "loading", !.context = NoContext,
                         !.initialised = FALSE,
                         !.added = shell.added \o
                                   << user, Message("assistant",
                                                    <<"Retrying authentication...">>) >>]
       ELSE IF shell.auth # "ready"
       THEN shell' = [s EXCEPT !.added =
                         shell.added \o
                         << user, Message("assistant",
                                          <<"Authentication is not ready yet.">>) >>]
       ELSE IF StartsWithSlash(trimmed)
       THEN shell' = [s EXCEPT !.busy = TRUE, !.added = Append(shell.added, user),
                         !.turns = Append(shell.turns, [kind |-> "slash", input |-> trimmed])]
       ELSE IF ~shell.agentAvailable
       THEN shell' = [s EXCEPT !.added = shell.added \o << user, AgentDisabledMessage >>]
       ELSE shell' = [s EXCEPT !.busy = TRUE, !.added = Append(shell.added, user),
                         !.turns = Append(shell.turns, [kind |-> "agent", input |-> trimmed])]
  /\ UNCHANGED <<client, op, wire, mcp, slash, agent>>

\* what one awaiting handleSubmit adds when its call has settled
TurnMessage(turn, outcome) ==
  IF turn.kind = "slash"
  THEN CASE outcome = "threw" -> Message("assistant", <<"Command failed: ">> \o turn.input)
         [] outcome = "errorResult" -> Message("assistant", turn.input)
         [] OTHER -> Message("tool", turn.input)
  ELSE CASE outcome = "threw" -> Message("assistant", <<"Agent error: ">> \o turn.input)
         [] OTHER -> Message("assistant", turn.input)

\* the call one handleSubmit awaits has settled: its message is added and its
\* finally block clears busy
TurnSettles ==
  /\ shell.pc = "turns"
  /\ \E i \in 1..Len(shell.turns) : \E outcome \in TurnOutcomes :
       shell' = [shell EXCEPT
                   !.busy = FALSE,
                   !.added = Append(@, TurnMessage(shell.turns[i], outcome)),
                   !.turns = SubSeq(@, 1, i - 1) \o SubSeq(@, i + 1, Len(@))]
  /\ UNCHANGED <<client, op, wire, mcp, slash, agent>>

TurnsNext ==
  \/ AuthResolves
  \/ SubmitAnytime
  \/ TurnSettles

TurnsSpec == TurnsInit /\ [][TurnsNext]_vars

(***************************************************************************)
(* Non-interactive mode: the effect that runs options.command once         *)
(* authentication is ready, prints the lines and ends the process          *)
(***************************************************************************)
\* the tokens whose text holds a quote, a backslash or a line break: the
\* three characters themselves and the pretty-printed JSON texts
NeedsEscape(t) ==
  t \in {"\"", "\\", "\n", "{}", "{result}", "{result+session}", "{error:forbidden}",
         "{error:nomessage}", "{error:sse}"}

\* a string literal written without any escape
NoEscape(line) == line

RECURSIVE EscapeLine(_)
\* the inside of the JSON string literal of a line
EscapeLine(line) ==
  IF Len(line) = 0 THEN <<>>
  ELSE (IF NeedsEscape(line[1])
        THEN <<"\\", IF line[1] = "\n" THEN "n" ELSE line[1]>>
        ELSE <<line[1]>>)
       \o EscapeLine(Tail(line))

\* JSON.stringify({lines})
StringifyLines(lines) ==
  <<"{", "\"", "lines", "\"", ":", "[">>
  \o Join([i \in 1..Len(lines) |-> <<"\"">> \o EscapeLine(lines[i]) \o <<"\"">>], <<",">>)
  \o <<"]", "}">>

\* the parsed command-line options of a non-interactive run
BatchOptions ==
  {[command |-> "ping", tool |-> NULL,  args |-> NULL,   json |-> FALSE],
   [command |-> "list", tool |-> NULL,  args |-> "{bad", json |-> TRUE],
   [command |-> "init", tool |-> NULL,  args |-> NULL,   json |-> TRUE],
   [command |-> "call", tool |-> "foo", args |-> "{}",   json |-> TRUE],
   [command |-> "call", tool |-> "foo", args |-> NULL,   json |-> FALSE],
   [command |-> "call", tool |-> "foo", args |-> "{bad", json |-> FALSE],
   [command |-> "call", tool |-> NULL,  args |-> "{}",   json |-> FALSE]}

BatchInit ==
  /\ client = NoClient
  /\ op = IdleOp
  /\ wire = <<>>
  /\ mcp = IdleMcp
  /\ slash = IdleSlash
  /\ agent = IdleAgent
  /\ shell \in [pc : {"batch"}, busy : {FALSE}, added : {<<>>}, auth : {"loading"},
                context : {NoContext}, initialised : {FALSE}, agentAvailable : {FALSE},
                options : BatchOptions, exitCodes : {<<>>},
                stdout : {<<>>}, stderr : {<<>>}]

\* an exit that reports success whatever the code
ExitsZero(s, code, out, err) ==
  [s EXCEPT !.pc = "exited", !.exitCodes = Append(s.exitCodes, 0),
            !.stdout = out, !.stderr = err]

\* process.exit(code) after the console output; exitCodes holds the codes the
\* process has been ended with
ProcessExit(s, code, out, err) ==
  [s EXCEPT !.pc = "exited", !.exitCodes = Append(s.exitCodes, code),
            !.stdout = out, !.stderr = err]

\* the effect, once authState is ready, up to its await or to its catch
BatchEffect ==
  /\ shell.pc = "batch"
  /\ shell.auth = "ready"
  /\ LET o == shell.options IN
     IF Truthy(o.tool) /\ Truthy(o.args) /\ ~ArgsJsonValid(o.args)
     THEN /\ shell' = ProcessExit(shell, 1, <<>>, JsonSyntaxError.message)
          /\ UNCHANGED <<client, op, wire, mcp>>
     ELSE /\ shell' = [shell EXCEPT !.pc = "batchMcp"]
          /\ executeMcpCommand("App", o.command, shell.context,
               IF Truthy(o.tool)
               THEN CallOptions(o.tool, IF Truthy(o.args) THEN o.args ELSE "{}")
               ELSE NoCallOptions)
  /\ UNCHANGED <<slash, agent>>

\* executeMcpCommand has settled inside the effect's try
BatchAfterMcp ==
  /\ shell.pc = "batchMcp"
  /\ mcp.pc \in {"returned", "threw"}
  /\ shell' =
       IF mcp.pc = "threw" THEN ProcessExit(shell, 1, <<>>, mcp.error.message)
       ELSE LET lines == formatMcpResult(shell.options.command, mcp.handshake,
                                         mcp.response, shell.options.tool)
            IN ProcessExit(shell, 0,
                           IF shell.options.json THEN StringifyLines(lines)
                           ELSE Join(lines, <<"\n">>),
                           <<>>)
  /\ mcp' = IdleMcp
  /\ UNCHANGED <<client, op, wire, slash, agent>>

BatchNext ==
  \/ AuthResolves
  \/ BatchEffect
  \/ BatchAfterMcp
  \/ McpAfterInitialize
  \/ McpAfterCommand
  \/ InitializeFetchSettles
  \/ NotificationFetchSettles
  \/ FetchSettles

BatchSpec == BatchInit /\ [][BatchNext]_vars

(***************************************************************************)
(* Properties of one McpClient instance (ClientSpec)                       *)
(***************************************************************************)
RECURSIVE LastSessionHeader(_)
\* the value of the most recent mcp-session-id response header in w, if any
LastSessionHeader(w) ==
  IF Len(w) = 0 THEN NULL
  ELSE IF w[Len(w)].dir = "response" /\ w[Len(w)].session # NULL THEN w[Len(w)].session
  ELSE LastSessionHeader(SubSeq(w, 1, Len(w) - 1))

\* the mcp-session-id header of a request, <<>> when it has none
SessionHeaderOf(e) ==
  IF "mcp-session-id" \in DOMAIN e.headers THEN e.headers["mcp-session-id"] ELSE <<>>

\* C1 as stated: once a response carrying an mcp-session-id header with value
\* s has been received, every later request of the instance carries the
\* mcp-session-id header equal to s.
C1_SessionSticks ==
  \A i \in 1..Len(wire) : \A j \in (i + 1)..Len(wire) :
     (wire[i].dir = "response" /\ wire[i].session # NULL /\ wire[j].dir = "request")
       => SessionHeaderOf(wire[j]) = <<wire[i].session>>

\* C1 amended: every request carries the value of the most recent
\* mcp-session-id response header received before it, and carries no
\* mcp-session-id header when there was none or that value is empty.
C1_LatestSessionEchoed ==
  \A j \in 1..Len(wire) :
     wire[j].dir = "request" =>
       LET s == LastSessionHeader(SubSeq(wire, 1, j - 1)) IN
       SessionHeaderOf(wire[j]) = IF Truthy(s) THEN <<s>> ELSE <<>>

\* C1 witness: a response with s1, a later response with s2, and a request
\* after both that carries s2
C1_Witness ==
  \E i, k, j \in 1..Len(wire) :
     /\ i < k /\ k < j
     /\ wire[i].dir = "response" /\ wire[i].session = "s1"
     /\ wire[k].dir = "response" /\ wire[k].session = "s2"
     /\ wire[j].dir = "request" /\ SessionHeaderOf(wire[j]) = <<"s2">>

\* C10: a request that is not best-effort and whose timer fires ends with an
\* error whose message names the client's URL and the timeout in ms; the
\* timer is cleared whenever no request is in flight, and every request
\* starts with a timer and an abort state of its own.
C10_TimeoutReported ==
  /\ (op.aborted /\ ~op.ignoreErrors) =>
        /\ op.pc = "threw"
        /\ op.value = [name |-> "Error",
                       message |-> <<"Request to ">> \o client.url
                                   \o <<" timed out after ", ToString(client.timeout), " ms">>]
  /\ op.pc = "wait" => (op.timerArmed /\ ~op.aborted)
  /\ op.pc # "wait" => ~op.timerArmed

\* C10 witness: the instance's first request, a ping, was aborted, and a
\* later tools/list on the same instance has returned a result
C10_Witness ==
  /\ Len(wire) >= 4
  /\ wire[1].dir = "request" /\ wire[1].payload.method = "ping"
  /\ AbortEvent \in {wire[2], wire[3]}
  /\ wire[Len(wire) - 1].dir = "request"
  /\ wire[Len(wire) - 1].payload.method = "tools/list"
  /\ wire[Len(wire)].dir = "response"
  /\ op.name = "listTools" /\ op.pc = "returned" /\ ~op.aborted
  /\ "result" \in DOMAIN op.value

(***************************************************************************)
(* Properties of the agent loop (Spec)                                     *)
(***************************************************************************)
\* every response of the turn so far held a tool_use block, and the turn is over
EveryResponseUsedTools ==
  \/ agent.pc = "returned" /\ agent.toolIteration = agent.providerCalls
  \/ agent.pc = "threw" /\ agent.tool.pc # "idle"

\* C2: if the provider returns a tool_use block in every response,
\* runAgentTurn ends after exactly 5 provider calls, returns the tool-usage-
\* limit message as its only assistant message, and throws no exception.
C2_CapEndsTurn ==
  EveryResponseUsedTools =>
    /\ agent.pc = "returned"
    /\ agent.providerCalls = 5
    /\ agent.finalMessages = << Message("assistant", ToolLimitMessage) >>

\* the entry is the tool_result for the tool_use with this id
IsResultFor(entry, id) ==
  /\ entry.role = "user"
  /\ Len(entry.blocks) = 1
  /\ entry.blocks[1].type = "tool_result"
  /\ entry.blocks[1].tool_use_id = id

\* the position of the first assistant entry after position i, else the end
NextAssistant(conv, i) ==
  LET later == {j \in (i + 1)..Len(conv) : conv[j].role = "assistant"} IN
  IF later = {} THEN Len(conv) + 1 ELSE CHOOSE j \in later : \A k \in later : j <= k

\* C3: in the conversation sent with a model request, each tool_use block of
\* each assistant entry is followed, before the next assistant entry, by
\* exactly one tool_result entry whose tool_use_id is the block's id.
C3_ToolResultsPaired ==
  \A i \in 1..Len(agent.sent) :
    agent.sent[i].role = "assistant" =>
      \A b \in 1..Len(agent.sent[i].blocks) :
        agent.sent[i].blocks[b].type = "tool_use" =>
          Cardinality({j \in (i + 1)..(NextAssistant(agent.sent, i) - 1) :
                         IsResultFor(agent.sent[j], agent.sent[i].blocks[b].id)}) = 1

\* C3 witness: a request after the first is out whose conversation holds an
\* assistant response with two tool_use blocks
C3_Witness ==
  /\ agent.pc = "model"
  /\ agent.providerCalls > 1
  /\ \E i \in 1..Len(agent.sent) :
       /\ agent.sent[i].role = "assistant"
       /\ Len(ToolCalls(agent.sent[i].blocks)) = 2

\* C4: a tool execution that fails is recorded as a tool result with isError
\* true and the loop goes on: no turn ends with an exception out of a tool.
C4_ToolFailureRecorded ==
  agent.pc = "threw" => agent.tool.pc = "idle"

\* the turn ended on its first response, which held no tool_use block
FirstResponseFinal ==
  /\ agent.pc = "returned"
  /\ agent.toolIteration = 0
  /\ ToolCalls(agent.outputBlocks) = <<>>

\* C9 as stated: if the first response has no tool_use block, the turn makes
\* one provider call, executes no tool, and returns one assistant message
\* whose text is the concatenation, in order, of the response's text blocks.
C9_TextConcatenated ==
  FirstResponseFinal =>
    /\ agent.providerCalls = 1
    /\ agent.toolOutputs = <<>>
    /\ agent.finalMessages =
         << Message("assistant", Flatten(TextsOf(agent.outputBlocks))) >>

\* C9 amended: ... whose text is the response's text blocks, in order, joined
\* with a line break between consecutive blocks.
C9_TextJoinedByLineBreaks ==
  FirstResponseFinal =>
    /\ agent.providerCalls = 1
    /\ agent.toolOutputs = <<>>
    /\ agent.finalMessages =
         << Message("assistant", Join(TextsOf(agent.outputBlocks), <<"\n">>)) >>

\* C9 witness: the first response was two text blocks and the turn is over
C9_Witness ==
  /\ FirstResponseFinal
  /\ Len(agent.outputBlocks) = 2
  /\ agent.outputBlocks[1].text # agent.outputBlocks[2].text

(***************************************************************************)
(* Properties of the dispatcher (Spec)                                     *)
(***************************************************************************)
\* C5: executeSlashCommand never throws; every failure of a ping, list,
\* init, call or task invocation comes back as {lines, isError: true}.
C5_SlashNeverThrows ==
  slash.pc # "threw"

\* a /call without a tool name is being, or has been, dispatched
CallWithoutTool ==
  slash.pc # "idle" /\ slash.parsed.kind = "call" /\ ~Truthy(slash.parsed.tool)

\* C6: a /call whose tool name is empty or missing returns the validation
\* error result without constructing a client or issuing any HTTP request.
C6_CallNeedsTool ==
  CallWithoutTool =>
    /\ slash.pc = "returned"
    /\ slash.isError
    /\ slash.lines = << <<"Tool name is required for /call.">> >>
    /\ client = NoClient
    /\ wire = <<>>
    /\ mcp = IdleMcp
    /\ op = IdleOp

\* C6 witness: the operator's /call with an empty tool name has returned
C6_Witness ==
  /\ CallWithoutTool
  /\ slash.caller = "shell"
  /\ slash.parsed.tool = ""
  /\ slash.pc = "returned"

\* C7: a model-issued mcp_command with command call and no tool yields its
\* error without any HTTP request being issued.
C7_NoRequestWithoutTool ==
  (/\ mcp.caller = "executeMappedTool"
   /\ mcp.command = "call"
   /\ ~mcp.callOptions.present) => wire = <<>>

RECURSIVE Methods(_)
\* the methods of the requests on the wire, in order
Methods(w) ==
  IF Len(w) = 0 THEN <<>>
  ELSE (IF w[1].dir = "request" THEN <<w[1].payload.method>> ELSE <<>>)
       \o Methods(Tail(w))

\* the requests a finished invocation of a command has made
RequestsOf(command) ==
  <<"initialize", "notifications/initialized">>
  \o (CASE command = "ping" -> <<"ping">>
        [] command = "list" -> <<"tools/list">>
        [] command = "call" -> <<"tools/call">>
        [] OTHER -> <<>>)

\* C8: for every ping, list, init and call invocation the requests of
\* executeMcpCommand go out from one client, in the order initialize,
\* notifications/initialized, the command's own request; nothing follows
\* initialize before its response has arrived; a finished invocation has made
\* all of them, and init returns the handshake envelope as its response.
C8_HandshakeFirst ==
  (mcp.pc # "idle" /\ mcp.command \in {"ping", "list", "init", "call"}) =>
    /\ Len(Methods(wire)) >= 1
    /\ IsPrefix(Methods(wire), RequestsOf(mcp.command))
    /\ Len(Methods(wire)) >= 2 => wire[2].dir = "response"
    /\ \A j \in 1..Len(wire) :
         wire[j].dir = "request" =>
           /\ wire[j].url = StripTrailingSlash(shell.context.gatewayUrl)
           /\ wire[j].payload.method = "initialize" => wire[j].payload.id = 1
           /\ wire[j].payload.method \in {"ping", "tools/list", "tools/call"} =>
                wire[j].payload.id = 2
    /\ mcp.pc = "returned" =>
         /\ Methods(wire) = RequestsOf(mcp.command)
         /\ mcp.command = "init" => mcp.response = mcp.handshake

\* C8 witness: a call invocation has returned after its three requests
C8_Witness ==
  /\ mcp.pc = "returned"
  /\ mcp.command = "call"
  /\ Methods(wire) = <<"initialize", "notifications/initialized", "tools/call">>

(***************************************************************************)
(* Properties of one method call (ExecuteSpec)                             *)
(***************************************************************************)
\* the envelope a response's body stands for
EnvelopeOf(e) ==
  IF e.body = EmptyBody THEN [jsonrpc |-> "2.0"]
  ELSE IF IsEventStream(e.contentType) THEN parseSsePayload(e.body)
  ELSE Parsed(BodyAsLine(e.body))

\* initialize() has got past its own request and the notification has settled
NotificationSettled ==
  /\ op.name = "initialize"
  /\ op.payload.method = "notifications/initialized"
  /\ op.pc # "wait"

\* C11: once the initialize request has succeeded, initialize() returns the
\* envelope of the initialize response whatever the notification came to
\* (timeout, network failure, non-2xx status, unparsable body): the
\* notification never raises.
C11_InitializeReturnsHandshake ==
  NotificationSettled =>
    /\ op.pc = "returned"
    /\ wire[2].dir = "response"
    /\ op.value = EnvelopeOf(wire[2])

\* C11 witness: the notification was aborted and initialize() has returned
\* the result of its own request
C11_Witness ==
  /\ NotificationSettled
  /\ op.aborted
  /\ wire[Len(wire)] = AbortEvent
  /\ "result" \in DOMAIN op.value

\* C12: a call that is not best-effort raises when the decoded response
\* envelope carries a JSON-RPC error field: no such envelope is returned.
C12_ErrorEnvelopeRaises ==
  (op.pc = "returned" /\ ~op.ignoreErrors) => "error" \notin DOMAIN op.value

(***************************************************************************)
(* Properties of the dispatcher's results (Spec)                           *)
(***************************************************************************)
\* JSON.stringify of the envelopes that carry a JSON-RPC error field
ErrorEnvelopeTexts == {"{error:forbidden}", "{error:nomessage}", "{error:sse}"}

\* C13: when the gateway answers a ping, list, init or call with an envelope
\* that carries a JSON-RPC error field, the dispatcher's result has isError
\* true, from executeSlashCommand and from a model-issued mcp_command alike.
C13_ErrorEnvelopeIsError ==
  /\ (/\ slash.pc = "returned"
      /\ \E i \in 1..Len(slash.lines) :
           \E j \in 1..Len(slash.lines[i]) : slash.lines[i][j] \in ErrorEnvelopeTexts)
       => slash.isError
  /\ (/\ agent.tool.pc = "returned"
      /\ \E i \in 1..Len(agent.tool.output) : agent.tool.output[i] \in ErrorEnvelopeTexts)
       => agent.tool.isError

(***************************************************************************)
(* Request ids of one McpClient instance (ClientSpec)                      *)
(***************************************************************************)
RECURSIVE IdsOf(_)
\* the ids of the requests in w that carry one, in the order they were sent
IdsOf(w) ==
  IF Len(w) = 0 THEN <<>>
  ELSE IF w[1].dir = "request" /\ "id" \in DOMAIN w[1].payload
       THEN <<w[1].payload.id>> \o IdsOf(Tail(w))
       ELSE IdsOf(Tail(w))

\* C14: the request ids of one instance start at 1 and are strictly
\* increasing, hence never repeated, across initialize, ping, listTools and
\* callTool and also after a failed or timed-out request; the
\* notifications/initialized message carries no id and consumes none: the
\* ids sent around it are consecutive.
C14_RequestIdsIncrease ==
  LET ids == IdsOf(wire) IN
  /\ Len(ids) > 0 => ids[1] = 1
  /\ \A i \in 1..Len(ids) : \A j \in (i + 1)..Len(ids) : ids[i] < ids[j]
  /\ \A n \in 1..Len(wire) :
       (wire[n].dir = "request" /\ wire[n].payload.method = "notifications/initialized")
         => /\ "id" \notin DOMAIN wire[n].payload
            /\ LET before == IdsOf(SubSeq(wire, 1, n))
                   after  == IdsOf(SubSeq(wire, n + 1, Len(wire)))
               IN Len(after) > 0 => after[1] = before[Len(before)] + 1
  /\ Len(ids) = client.requestId

\* C14 witness: the notification after initialize (id 1) timed out, and the
\* next request of the instance carries id 2
C14_Witness ==
  \E n \in 1..Len(wire) : \E k \in (n + 1)..Len(wire) :
     /\ wire[n].dir = "request" /\ wire[n].payload.method = "notifications/initialized"
     /\ \E a \in (n + 1)..(k - 1) : wire[a] = AbortEvent
     /\ wire[k].dir = "request" /\ "id" \in DOMAIN wire[k].payload
     /\ wire[k].payload.id = 2

(***************************************************************************)
(* The session identifier of one McpClient instance (ClientSpec)           *)
(***************************************************************************)
\* C15: the stored session identifier is the value of the most recent
\* response that carried an mcp-session-id header, whatever that response
\* was (a non-2xx response that made the call raise, the response to the
\* best-effort notification, a response whose body was never read); a
\* response without the header leaves the stored identifier unchanged.
C15_SessionCapturedFromEveryResponse ==
  client.sessionId = LastSessionHeader(wire)

\* C15 witness: the notification's response carried s1, a later 403
\* response carried s2 and made the call raise, and s2 is stored
C15_Witness ==
  /\ op.pc = "threw"
  /\ client.sessionId = "s2"
  /\ wire[Len(wire)].dir = "response"
  /\ wire[Len(wire)].status = 403
  /\ wire[Len(wire)].session = "s2"
  /\ \E n \in 1..(Len(wire) - 2) :
       /\ wire[n].dir = "request" /\ wire[n].payload.method = "notifications/initialized"
       /\ wire[n + 1].dir = "response" /\ wire[n + 1].session = "s1"

(***************************************************************************)
(* Session identifiers across McpClient instances (Spec)                   *)
(***************************************************************************)
\* C16: the session identifier an instance stores is unset or the value of
\* an mcp-session-id header of an earlier response to that instance; the
\* first request of an instance created by executeMcpCommand carries no
\* mcp-session-id header, whatever earlier instances learned.
C16_SessionNeverInvented ==
  /\ \/ client.sessionId = NULL
     \/ \E i \in 1..Len(wire) :
          wire[i].dir = "response" /\ wire[i].session = client.sessionId
  /\ Len(wire) >= 1 =>
       /\ wire[1].dir = "request"
       /\ wire[1].payload.method = "initialize"
       /\ SessionHeaderOf(wire[1]) = <<>>

\* C16 witness: an earlier mcp_command of this agent turn succeeded on an
\* instance that learned a session identifier, and the first request of the
\* next instance is in flight
C16_Witness ==
  /\ \E i \in 1..Len(agent.toolOutputs) :
       agent.toolOutputs[i].name = "mcp_command" /\ ~agent.toolOutputs[i].isError
  /\ mcp.pc = "initialize"
  /\ Len(wire) = 1
  /\ op.pc = "wait"
  /\ client.sessionId = NULL

(***************************************************************************)
(* The order of tool executions within one agent turn (Spec)               *)
(***************************************************************************)
RECURSIVE BlocksIn(_)
\* the content blocks of the entries of a conversation, in order
BlocksIn(conv) ==
  IF Len(conv) = 0 THEN <<>> ELSE conv[1].blocks \o BlocksIn(Tail(conv))

IsToolUse(b) == b.type = "tool_use"

IsToolResult(b) == b.type = "tool_result"

\* the tool_use blocks the model has issued this turn, as its responses list them
IssuedCalls == SelectSeq(BlocksIn(agent.conversation), IsToolUse)

\* the tool_result blocks recorded this turn
RecordedResults == SelectSeq(BlocksIn(agent.conversation), IsToolResult)

\* C17: the tool calls of a model response are executed one at a time in
\* the order of the response: the calls completed so far are exactly the
\* first ones issued, in that order, in the conversation and in toolOutputs
\* alike; call k of a response is started only when the k - 1 calls before
\* it have completed, and the turn returns or asks the model again only
\* when every issued call has completed.
C17_ToolCallsInOrder ==
  agent.pc \in {"tools", "model", "returned"} =>
    LET done == Len(agent.toolOutputs) IN
    /\ Len(RecordedResults) = done
    /\ done <= Len(IssuedCalls)
    /\ \A i \in 1..done :
         /\ RecordedResults[i].tool_use_id = IssuedCalls[i].id
         /\ agent.toolOutputs[i].name = IssuedCalls[i].name
    /\ agent.pc = "tools" =>
         /\ done = Len(IssuedCalls) - Len(agent.calls) + agent.k - 1
         /\ agent.calls[agent.k] = IssuedCalls[done + 1]
    /\ agent.pc # "tools" => done = Len(IssuedCalls)
    /\ (mcp.pc # "idle" \/ slash.pc # "idle") => agent.pc = "tools"

\* C17 witness: the second call of a response has its handshake in flight,
\* the first call of that response having completed
C17_Witness ==
  /\ agent.pc = "tools"
  /\ agent.k = 2
  /\ agent.tool.pc = "mcp"
  /\ mcp.pc = "initialize"
  /\ op.pc = "wait"
  /\ Len(agent.toolOutputs) >= 1
  /\ agent.toolOutputs[Len(agent.toolOutputs)].name = "registry_task"

(***************************************************************************)
(* The requests of one dispatcher invocation (Spec)                        *)
(***************************************************************************)
\* the positions in the wire of the requests with method m
RequestsWith(m) ==
  {j \in 1..Len(wire) : wire[j].dir = "request" /\ wire[j].payload.method = m}

\* the request at position j failed: its connection failed (nothing came
\* back before the next request or the end of the invocation), it was
\* aborted by its timer, or it was answered with a non-success status
RequestFailed(j) ==
  \/ j = Len(wire) /\ op.pc # "wait"
  \/ j < Len(wire) /\ wire[j + 1].dir = "request"
  \/ j < Len(wire) /\ wire[j + 1] = AbortEvent
  \/ j + 1 < Len(wire) /\ wire[j + 2] = AbortEvent
  \/ j < Len(wire) /\ wire[j + 1].dir = "response" /\ ~ResponseOk(wire[j + 1].status)

\* C18: no request is retried.  In one invocation of executeMcpCommand each
\* of initialize, notifications/initialized and the command's request is
\* sent at most once, so ping, list and call make at most 3 HTTP requests
\* and init at most 2; a failed or timed-out request is not sent again, and
\* when it is not the notification nothing at all is sent after it.
C18_NoRetry ==
  mcp.pc # "idle" =>
    /\ \A m \in {"initialize", "notifications/initialized", "ping", "tools/list",
                 "tools/call"} : Cardinality(RequestsWith(m)) <= 1
    /\ Cardinality({j \in 1..Len(wire) : wire[j].dir = "request"})
         <= IF mcp.command \in {"ping", "list", "call"} THEN 3 ELSE 2
    /\ \A j \in 1..Len(wire) :
         (/\ wire[j].dir = "request"
          /\ wire[j].payload.method # "notifications/initialized"
          /\ RequestFailed(j))
           => \A n \in (j + 1)..Len(wire) : wire[n].dir # "request"

\* C18 witness: a ping invocation has ended with an error after its ping
\* request, the third request, timed out
C18_Witness ==
  /\ mcp.pc = "threw"
  /\ mcp.command = "ping"
  /\ Cardinality({j \in 1..Len(wire) : wire[j].dir = "request"}) = 3
  /\ RequestsWith("ping") # {}
  /\ wire[Len(wire)] = AbortEvent

(***************************************************************************)
(* HTTP errors of one method call (ExecuteSpec)                            *)
(***************************************************************************)
\* the token sequence part occurs in the token sequence s
Contains(s, part) ==
  \E i \in 1..(Len(s) - Len(part) + 1) : SubSeq(s, i, i + Len(part) - 1) = part

\* the body is JSON and carries an error object
HasErrorObject(body) ==
  CanParse(BodyAsLine(body)) /\ "error" \in DOMAIN Parsed(BodyAsLine(body))

\* a call that is not best-effort has settled on a response, read in full
\* before the timer fired, whose status is not a success
SettledOnHttpError ==
  /\ op.pc \in {"returned", "threw"}
  /\ ~op.ignoreErrors
  /\ Len(wire) >= 2
  /\ wire[Len(wire)].dir = "response"
  /\ ~ResponseOk(wire[Len(wire)].status)

JsonDataLines(body) ==
  {i \in 1..Len(body) :
     Len(body[i]) > 0 /\ body[i][1] = "data:" /\ CanParse(Tail(body[i]))}

\* the payload of the first such line, else the synthetic error envelope
SseEnvelope(body) ==
  IF JsonDataLines(body) = {}
  THEN [jsonrpc |-> "2.0", error |-> [message |-> "No JSON payload found in SSE response"]]
  ELSE LET first == CHOOSE i \in JsonDataLines(body) :
                      \A k \in JsonDataLines(body) : i <= k
       IN Parsed(Tail(body[first]))

\* the first request of the instance was answered, before the timer fired,
\* by an event-stream response with a success status
SseResponseRead ==
  /\ Len(wire) >= 2
  /\ wire[2].dir = "response"
  /\ IsEventStream(wire[2].contentType)
  /\ ResponseOk(wire[2].status)
  /\ Len(wire) >= 3 => wire[3] # AbortEvent

\* what the execute() of the first request came to: initialize() holds it
\* while the notification is out and returns it afterwards
FirstResult ==
  IF op.payload.method = "notifications/initialized" THEN op.saved ELSE op.value

FirstRaised == op.payload.method # "notifications/initialized" /\ op.pc = "threw"

\* C20 as stated: for an event-stream response the result is the payload of
\* the first data: line that yields JSON, and when no data: line yields JSON
\* it is a returned, not raised, synthetic error envelope with the message
\* "No JSON payload found in SSE response".
C20_SsePayloadDecoded ==
  SseResponseRead =>
    /\ ~FirstRaised
    /\ FirstResult = SseEnvelope(wire[2].body)

\* C20 amended: for an event-stream response with a non-empty body the
\* result is the payload of the first data: line whose payload is not blank
\* and parses as JSON, and when there is no such line it is a returned, not
\* raised, synthetic error envelope with the message "No JSON payload found
\* in SSE response"; an empty body is the envelope {jsonrpc: "2.0"} whatever
\* the content type.
C20_SseDecodedUnlessEmpty ==
  SseResponseRead =>
    /\ ~FirstRaised
    /\ FirstResult = IF wire[2].body = EmptyBody THEN [jsonrpc |-> "2.0"]
                     ELSE SseEnvelope(wire[2].body)

\* C20 witness: a tools/list was answered by a stream whose first two data:
\* lines hold no JSON and whose third does, and has returned the third's
\* envelope
C20_Witness ==
  /\ SseResponseRead
  /\ op.name = "listTools"
  /\ op.pc = "returned"
  /\ Cardinality({i \in 1..Len(wire[2].body) :
                    Len(wire[2].body[i]) > 0 /\ wire[2].body[i][1] = "data:"}) = 3
  /\ JsonDataLines(wire[2].body) = {3}
  /\ op.value = Parsed(Tail(wire[2].body[3]))

(***************************************************************************)
(* Malformed input to the dispatcher (Spec)                                *)
(***************************************************************************)
\* executeSlashCommand has been entered with a /call whose args are not JSON
CallWithBadArgs ==
  /\ slash.pc # "idle"
  /\ slash.parsed.kind = "call"
  /\ Truthy(slash.parsed.argsJson)
  /\ slash.parsed.argsJson \notin {"{}"}

\* C21: a /call whose args are not valid JSON resolves to a call invocation
\* that keeps the text as it is, and the dispatcher answers it at once with
\* an error result (isError true) without creating a client or issuing a
\* request; when a tool is named the one line reports the invalid JSON.
C21_BadArgsRejectedAtExecution ==
  CallWithBadArgs =>
    /\ slash.pc = "returned"
    /\ slash.isError
    /\ Len(slash.lines) = 1
    /\ Truthy(slash.parsed.tool) =>
         IsPrefix(<<"Invalid JSON for args: ">>, slash.lines[1])
    /\ mcp.pc = "idle"
    /\ op.pc = "idle"
    /\ client = NoClient
    /\ wire = <<>>

\* C21 witness: /call tool=foo args={bad has been answered
C21_Witness ==
  /\ CallWithBadArgs
  /\ slash.parsed.tool = "foo"
  /\ slash.parsed.argsJson = "{bad"
  /\ slash.pc = "returned"
  /\ slash.isError

\* executeSlashCommand has been entered with a task whose key the catalog
\* does not hold for its category
UnknownTask ==
  /\ slash.pc # "idle"
  /\ slash.parsed.kind = "task"
  /\ slash.parsed.key \notin TaskKeys(slash.parsed.category)

\* executeSlashCommand has been entered with a line the resolver does not
\* recognise (an unknown category is such a line)
UnknownCommand == slash.pc # "idle" /\ slash.parsed.kind = "unknown"

\* C22: a task with an unknown key, and a slash command the resolver does
\* not recognise (an unknown category among them), are answered at once
\* with an error result of one descriptive line (the resolver's message for
\* the unrecognised command); the task runner is not started and no gateway
\* request is made.
C22_UnknownInputIsErrorResult ==
  (UnknownTask \/ UnknownCommand) =>
    /\ slash.pc = "returned"
    /\ slash.isError
    /\ Len(slash.lines) = 1
    /\ slash.lines[1] # <<>>
    /\ UnknownCommand => slash.lines[1] = slash.parsed.message
    /\ mcp.pc = "idle"
    /\ op.pc = "idle"
    /\ wire = <<>>

\* C22 witness: /service bogus has been answered with an error result
C22_Witness ==
  /\ UnknownTask
  /\ slash.parsed.category = "service"
  /\ slash.parsed.key = "bogus"
  /\ slash.pc = "returned"
  /\ slash.isError

(***************************************************************************)
(* Operator turns in the interactive shell (TurnsSpec)                     *)
(***************************************************************************)
\* C23: at most one operator turn is in flight at a time: no second
\* executeSlashCommand or runAgentTurn is started while one started by
\* handleSubmit has not completed, and busy is true exactly while a turn is
\* in flight.
C23_OneTurnInFlight ==
  /\ Len(shell.turns) <= 1
  /\ shell.busy <=> (Len(shell.turns) > 0)

(***************************************************************************)
(* Routing of submitted input (Spec)                                       *)
(***************************************************************************)
\* a step of handleSubmit for a non-blank value (an auth step is the only
\* other step of the idle shell, and it leaves the loading state)
SubmitStep ==
  /\ shell.pc = "idle"
  /\ shell' # shell
  /\ ~(shell.auth = "loading" /\ shell'.auth # "loading")

\* the step starts executeSlashCommand for the submitted text and no agent turn
RoutedToDispatcher ==
  /\ shell'.pc = "slash"
  /\ slash'.pc # "idle"
  /\ slash'.caller = "shell"
  /\ slash'.parsed = parseCommand(shell'.added[1].text)
  /\ agent' = IdleAgent

\* the step starts runAgentTurn and no slash command
RoutedToAgent ==
  /\ shell'.pc = "agent"
  /\ agent'.pc = "model"
  /\ slash' = IdleSlash

\* the step executes nothing
NothingExecuted ==
  /\ shell'.pc = "idle"
  /\ UNCHANGED <<client, op, wire, mcp, slash, agent>>

\* the text begins with the command prefix
CommandPrefixed(text) == text # <<>> /\ Head(text) = "/"

\* C24 as stated: input starting with '/' is always routed to
\* executeSlashCommand and never to runAgentTurn; other input is never
\* routed to executeSlashCommand, and reaches runAgentTurn only when agent
\* mode is available, the fixed 'disabled' message being shown otherwise
\* and nothing executed.
C24_RoutedByPrefix ==
  [][SubmitStep =>
       LET text == shell'.added[1].text IN
       /\ CommandPrefixed(text) => RoutedToDispatcher
       /\ ~CommandPrefixed(text) =>
            /\ ~RoutedToDispatcher
            /\ RoutedToAgent => shell.agentAvailable
            /\ ~shell.agentAvailable =>
                 /\ NothingExecuted
                 /\ shell'.added = << Message("user", text), AgentDisabledMessage >>]_vars

\* C24 amended: '/retry' restarts authentication and executes nothing, and
\* while authentication is not ready every other input gets the fixed 'not
\* ready' message and executes nothing.  Once authentication is ready, input
\* starting with '/' other than '/retry' is always routed to
\* executeSlashCommand and never to runAgentTurn; input not starting with
\* '/' is never routed to executeSlashCommand, is routed to runAgentTurn
\* when agent mode is available, and otherwise gets the fixed 'disabled'
\* message and executes nothing.
C24_RoutedByPrefixWhenReady ==
  [][SubmitStep =>
       LET text == shell'.added[1].text IN
       IF text = <<"/", "retry">>
       THEN NothingExecuted /\ shell'.auth = "loading"
       ELSE IF shell.auth # "ready"
       THEN /\ NothingExecuted
            /\ shell'.added = << Message("user", text),
                                 Message("assistant", <<"Authentication is not ready yet.">>) >>
       ELSE IF CommandPrefixed(text)
       THEN RoutedToDispatcher
       ELSE IF shell.agentAvailable
       THEN RoutedToAgent
       ELSE /\ NothingExecuted
            /\ shell'.added = << Message("user", text), AgentDisabledMessage >>]_vars

\* C24 witness: with agent mode available, a typed /list is with the
\* dispatcher and no agent turn runs
C24_Witness ==
  /\ shell.pc = "slash"
  /\ shell.agentAvailable
  /\ shell.added = << Message("user", <<"/", "list">>) >>
  /\ slash.caller = "shell"
  /\ slash.parsed.kind = "list"
  /\ agent = IdleAgent

(***************************************************************************)
(* Commands of a model-issued mcp_command (Spec)                           *)
(***************************************************************************)
\* the tool call being executed is an mcp_command whose command is not empty
\* and is none of ping, list, call, init
UnknownMcpCommand ==
  /\ agent.pc = "tools"
  /\ agent.tool.pc # "idle"
  /\ agent.calls[agent.k].name = "mcp_command"
  /\ Truthy(agent.calls[agent.k].input.command)
  /\ agent.calls[agent.k].input.command \notin {"ping", "list", "call", "init"}

\* C25: a model-issued mcp_command whose command is not empty and is none
\* of ping, list, call, init yields an error result and causes no gateway
\* request.
C25_UnknownCommandRejected ==
  UnknownMcpCommand =>
    /\ agent.tool.pc = "returned"
    /\ agent.tool.isError
    /\ wire = <<>>

(***************************************************************************)
(* registry_task calls (Spec)                                              *)
(***************************************************************************)
\* the registry_task call being executed has got as far as executeSlashCommand
TaskCallRunning ==
  /\ agent.pc = "tools"
  /\ agent.tool.pc \in {"slash", "returned"}
  /\ agent.calls[agent.k].name = "registry_task"

\* C26: the command text of a registry_task call is trimmed and gets '/'
\* prepended only when it does not already start with '/': normalising is
\* idempotent and leaves a trimmed text that has the prefix as it is.  The
\* normalised text is executed by executeSlashCommand, and the tool result
\* is that command's isError flag and its lines joined by line breaks.
C26_TaskTextNormalized ==
  TaskCallRunning =>
    LET line == agent.calls[agent.k].input.line
        text == NormalizeCommandText(line)
    IN /\ text # <<>> /\ Head(text) = "/"
       /\ (Trim(line) # <<>> /\ Head(Trim(line)) = "/") => text = Trim(line)
       /\ ~(Trim(line) # <<>> /\ Head(Trim(line)) = "/") => Tail(text) = Trim(line)
       /\ NormalizeCommandText(text) = text
       /\ slash.pc # "idle"
       /\ slash.caller = "agent"
       /\ slash.parsed = parseCommand(text)
       /\ agent.tool.pc = "returned" =>
            /\ slash.pc = "returned"
            /\ agent.tool.isError = slash.isError
            /\ agent.tool.output = Join(slash.lines, <<"\n">>)

\* C26 witness: a registry_task whose text has a leading blank and no prefix
\* has run as the task command /service list-groups and its lines are the
\* tool result
C26_Witness ==
  /\ TaskCallRunning
  /\ agent.calls[agent.k].input.line = <<" ", "service", "list-groups">>
  /\ agent.tool.pc = "returned"
  /\ slash.parsed.kind = "task"
  /\ slash.parsed.key = "list-groups"
  /\ ~agent.tool.isError
  /\ agent.tool.output # <<>>

(***************************************************************************)
(* Non-interactive runs (BatchSpec)                                        *)
(***************************************************************************)
\* the options name a call without a tool, or a tool with args that are not JSON
MalformedOptions ==
  \/ shell.options.command = "call" /\ ~Truthy(shell.options.tool)
  \/ /\ Truthy(shell.options.tool) /\ Truthy(shell.options.args)
     /\ shell.options.args \notin {"{}"}

\* a request of the run failed: it was aborted, it got no response, or its
\* response (the notification's aside) had a non-success status or a body
\* that is not JSON
RequestRaised ==
  \E j \in 1..Len(wire) :
     /\ wire[j].dir = "request"
     /\ wire[j].payload.method # "notifications/initialized"
     /\ \/ j = Len(wire) /\ op.pc # "wait"
        \/ j < Len(wire) /\ wire[j + 1].dir # "response"
        \/ j + 1 < Len(wire) /\ wire[j + 2] = AbortEvent
        \/ /\ j < Len(wire) /\ wire[j + 1].dir = "response"
           /\ \/ ~ResponseOk(wire[j + 1].status)
              \/ /\ wire[j + 1].body # EmptyBody
                 /\ ~IsEventStream(wire[j + 1].contentType)
                 /\ ~CanParse(BodyAsLine(wire[j + 1].body))

\* C27: a non-interactive run ends with exit code 1 when an error was raised
\* while executing the command (a request failed by transport, HTTP status
\* or timeout, the args were not JSON, a call named no tool) and with exit
\* code 0 when the command completed without one; the process is ended at
\* most once, and only when the command has settled.
C27_ExitCodeReflectsOutcome ==
  /\ Len(shell.exitCodes) <= 1
  /\ (shell.pc = "exited") <=> (Len(shell.exitCodes) = 1)
  /\ shell.pc = "exited" =>
       /\ mcp.pc = "idle" /\ op.pc = "idle"
       /\ (MalformedOptions \/ RequestRaised) <=> (shell.exitCodes = <<1>>)
       /\ ~(MalformedOptions \/ RequestRaised) <=> (shell.exitCodes = <<0>>)
       /\ shell.exitCodes = <<1>> => (shell.stderr # <<>> /\ shell.stdout = <<>>)
       /\ shell.exitCodes = <<0>> => (shell.stdout # <<>> /\ shell.stderr = <<>>)

\* C27 witness: a ping run whose ping request timed out has ended with code 1
C27_Witness ==
  /\ shell.pc = "exited"
  /\ shell.options.command = "ping"
  /\ shell.exitCodes = <<1>>
  /\ wire[Len(wire)] = AbortEvent
  /\ Len(wire) >= 5

\* the token an escape sequence stands for
Unescape(t) == IF t = "n" THEN "\n" ELSE t

SyntaxError == [ok |-> FALSE, lines |-> <<>>]

RECURSIVE ScanStrings(_, _, _, _)
\* JSON.parse of the elements of an array of strings: inside a literal a
\* backslash takes the next token, a quote ends the literal, and a raw token
\* that holds a quote, a backslash or a line break is a syntax error
ScanStrings(toks, inString, cur, acc) ==
  IF Len(toks) = 0
  THEN (IF inString THEN SyntaxError ELSE [ok |-> TRUE, lines |-> acc])
  ELSE IF inString
  THEN (CASE toks[1] = "\\" ->
               IF Len(toks) < 2 THEN SyntaxError
               ELSE ScanStrings(SubSeq(toks, 3, Len(toks)), TRUE,
                                Append(cur, Unescape(toks[2])), acc)
          [] toks[1] = "\"" -> ScanStrings(Tail(toks), FALSE, <<>>, Append(acc, cur))
          [] OTHER ->
               IF NeedsEscape(toks[1]) THEN SyntaxError
               ELSE ScanStrings(Tail(toks), TRUE, Append(cur, toks[1]), acc))
  ELSE (CASE toks[1] = "\"" -> ScanStrings(Tail(toks), TRUE, <<>>, acc)
          [] toks[1] = ","  ->
               IF Len(acc) = 0 \/ Len(toks) < 2 \/ toks[2] # "\"" THEN SyntaxError
               ELSE ScanStrings(Tail(toks), FALSE, <<>>, acc)
          [] OTHER -> SyntaxError)

\* JSON.parse(text).lines of a text printed in JSON output mode
ParseLines(text) ==
  IF /\ Len(text) >= 8
     /\ SubSeq(text, 1, 6) = <<"{", "\"", "lines", "\"", ":", "[">>
     /\ SubSeq(text, Len(text) - 1, Len(text)) = <<"]", "}">>
  THEN ScanStrings(SubSeq(text, 7, Len(text) - 2), FALSE, <<>>, <<>>)
  ELSE SyntaxError

\* the run prints the lines of a command that returned, in JSON output mode
PrintsJson ==
  /\ shell.pc = "batchMcp" /\ mcp.pc = "returned" /\ shell.options.json
  /\ shell'.pc = "exited"

RECURSIVE buildAgentHistory(_)
\* buildAgentHistory(messages): the tool messages dropped, the roles mapped
buildAgentHistory(messages) ==
  IF Len(messages) = 0 THEN <<>>
  ELSE (IF messages[1].role = "tool" THEN <<>>
        ELSE << Message(IF messages[1].role \in {"system", "assistant"}
                        THEN messages[1].role ELSE "user",
                        messages[1].text) >>)
       \o buildAgentHistory(Tail(messages))

\* the chat logs of the shell the histories are built from
ChatLogs ==
  {<<>>,
   << WelcomeMessage, Message("tool", <<"mcp_command", " ->", "\n", "{}">>) >>,
   << WelcomeMessage, Message("assistant", <<"Authenticated against the gateway">>),
      Message("user", <<"list", " ", "the", " ", "tools">>) >>,
   << Message("user", <<"a">>), Message("tool", <<"registry_task", " ->", "\n", "ok">>),
      Message("assistant", <<"b">>), WelcomeMessage, Message("user", <<"a">>) >>}

\* the tool-using response the provider gives in these turns
HistoryScript == << ToolUse("mcp_command", McpInput("ping", NULL)) >>

HistoryInit ==
  /\ client = NoClient
  /\ op = IdleOp
  /\ wire = <<>>
  /\ mcp = IdleMcp
  /\ slash = IdleSlash
  /\ agent = IdleAgent
  /\ shell \in [pc : {"history"}, busy : {FALSE}, added : {<<>>}, auth : {"ready"},
                context : {c \in Contexts : c.gatewayToken = NULL}, initialised : {TRUE},
                agentAvailable : {TRUE},
                first : ChatLogs, second : ChatLogs, turn : {0},
                history : {<<>>}]

\* the caller builds the history of the next turn and calls runAgentTurn
HistoryTurnStarts ==
  /\ shell.pc = "history"
  /\ agent.pc = "idle"
  /\ shell.turn < 2
  /\ LET history == buildAgentHistory(IF shell.turn = 0 THEN shell.first
                                      ELSE shell.second)
     IN /\ shell' = [shell EXCEPT !.turn = @ + 1, !.history = history]
        /\ agent' = [runAgentTurn(history) EXCEPT !.script = HistoryScript]
  /\ UNCHANGED <<client, op, wire, mcp, slash>>

\* the turn has returned or thrown: its activation is gone
HistoryTurnSettles ==
  /\ shell.pc = "history"
  /\ agent.pc \in {"returned", "threw"}
  /\ agent' = IdleAgent
  /\ client' = NoClient
  /\ wire' = <<>>
  /\ UNCHANGED <<op, mcp, slash, shell>>

HistoryNext ==
  \/ HistoryTurnStarts
  \/ HistoryTurnSettles
  \/ ModelResponds
  \/ ProviderFails
  \/ executeMappedTool
  \/ ToolAfterMcp
  \/ AgentToolSettles
  \/ McpAfterInitialize
  \/ McpAfterCommand
  \/ InitializeFetchSettles
  \/ NotificationFetchSettles
  \/ FetchSettles

HistorySpec == HistoryInit /\ [][HistoryNext]_vars

\* an entry of a history that is part of the chat
ChatOnly(m) == m.role \in {"user", "assistant"}

\* what the first model request of a turn on this history holds
FirstRequestOf(history) ==
  IF SelectSeq(history, ChatOnly) = <<>>
  THEN << [role |-> "user", text |-> <<"Hello.">>, blocks |-> <<>>] >>
  ELSE SelectSeq(history, ChatOnly)

\* the chat log the running turn was started from
LogOfTurn == IF shell.turn = 1 THEN shell.first ELSE shell.second

\* C29: while a turn runs, the history the caller passed is as the caller
\* built it (the chat log without its tool messages); the conversation
\* starts with the user and assistant entries of that history in order, or
\* with one placeholder user entry when it has none, and the first model
\* request holds exactly that; everything after it was added by this turn
\* (one assistant entry and one tool result per tool iteration), so nothing
\* of an earlier turn is in it.
C29_TurnStartsFromHistoryAlone ==
  agent.pc # "idle" =>
    /\ shell.history = buildAgentHistory(LogOfTurn)
    /\ \A i \in 1..Len(shell.history) : shell.history[i].role # "tool"
    /\ LET start == FirstRequestOf(shell.history) IN
         /\ Len(agent.conversation) =
              Len(start) + 2 * agent.toolIteration + (IF agent.pc = "tools" THEN 1 ELSE 0)
         /\ SubSeq(agent.conversation, 1, Len(start)) = start
         /\ agent.providerCalls = 1 => agent.sent = start
         /\ \A i \in 1..Len(agent.sent) : agent.sent[i].role \in {"user", "assistant"}

\* C29 witness: the second turn's first model request is out; its chat log
\* holds a system and a tool message only, so the request is the placeholder,
\* while the first turn ran on a log with chat entries
C29_Witness ==
  /\ shell.turn = 2
  /\ agent.pc = "model" /\ agent.providerCalls = 1
  /\ Len(shell.second) = 2 /\ shell.second[2].role = "tool"
  /\ Len(shell.first) = 5
  /\ Len(shell.history) = 1 /\ shell.history[1].role = "system"
  /\ agent.sent = << [role |-> "user", text |-> <<"Hello.">>, blocks |-> <<>>] >>

(***************************************************************************)
(* Responses with an empty body (ExecuteSpec)                              *)
(***************************************************************************)
\* the first request of the instance was answered, before the timer fired,
\* by a response whose body is the empty string
EmptyResponseRead ==
  /\ Len(wire) >= 2
  /\ wire[2].dir = "response"
  /\ wire[2].body = EmptyBody
  /\ Len(wire) >= 3 => wire[3] # AbortEvent

\* a response that can come to the request in flight, read in full before
\* the timer fires, with an empty body
EmptyAnswers ==
  {o \in OutcomesNow : /\ HeadersReceived(client, o) /\ ~TimerFires(client, o)
                       /\ o.body = EmptyBody}

\* C30: a response with an empty body and a success status decodes to the
\* envelope {jsonrpc: "2.0"} whatever its content type; with a status that
\* is not a success it makes a call that is not best-effort raise the HTTP
\* error of the status, which has no body text; the best-effort notification
\* comes to the envelope {jsonrpc: "2.0"} for either status.
C30_EmptyBodyAfterStatus ==
  /\ EmptyResponseRead =>
       IF wire[2].status \in 200..299
       THEN ~FirstRaised /\ FirstResult = [jsonrpc |-> "2.0"]
       ELSE /\ FirstRaised
            /\ op.value = [name |-> "Error",
                           message |-> <<"HTTP ", ToString(wire[2].status), " ",
                                         StatusText(wire[2].status), ".">>]
  /\ (op.pc = "wait" /\ op.ignoreErrors) =>
       \A o \in EmptyAnswers :
          /\ ~execute(client, TRUE, o).threw
          /\ execute(client, TRUE, o).value = [jsonrpc |-> "2.0"]

\* C30 witness: a tools/list answered 403 with a JSON content type and an
\* empty body has raised "HTTP 403 Forbidden."
C30_Witness ==
  /\ EmptyResponseRead
  /\ op.name = "listTools"
  /\ wire[2].status = 403
  /\ wire[2].contentType = "application/json"
  /\ op.pc = "threw"
  /\ op.value.message = <<"HTTP ", "403", " ", "Forbidden", ".">>

(***************************************************************************)
(* The conversation of one agent turn (Spec)                               *)
(***************************************************************************)
\* this step sends a model request that is not the first of its turn
NextRequestSent ==
  /\ agent.providerCalls >= 1
  /\ agent'.providerCalls = agent.providerCalls + 1

\* C31: within a turn the conversation only grows at its end, and the list
\* sent with request k+1 is the list sent with request k, then response k's
\* content as it came as one assistant entry, then one tool-result entry per
\* tool call of that response, in call order, with the call's id and the
\* output the call gave.
C31_ConversationAppendOnly ==
  [][/\ (agent.pc # "idle" /\ agent'.pc # "idle")
          => /\ IsPrefix(agent.conversation, agent'.conversation)
             /\ IsPrefix(agent'.sent, agent'.conversation)
     /\ NextRequestSent =>
          LET calls == SelectSeq(agent.outputBlocks, IsToolUse)
              n == Len(calls)
              outs == agent'.toolOutputs
          IN /\ n >= 1 /\ Len(outs) >= n
             /\ agent'.sent =
                  agent.sent
                  \o << [role |-> "assistant", text |-> <<>>,
                         blocks |-> agent.outputBlocks] >>
                  \o [i \in 1..n |->
                        [role |-> "user", text |-> <<>>,
                         blocks |-> << [type |-> "tool_result",
                                        tool_use_id |-> calls[i].id,
                                        content |-> outs[Len(outs) - n + i].output] >>]]
    ]_vars

\* C31 witness: the third request of a turn is out; the response before it
\* held a text block and two tool calls
C31_Witness ==
  /\ agent.pc = "model"
  /\ agent.providerCalls = 3
  /\ Len(agent.outputBlocks) = 3
  /\ Len(SelectSeq(agent.outputBlocks, IsToolUse)) = 2
  /\ Len(agent.sent) >= 7

(***************************************************************************)
(* What a turn returns (Spec)                                              *)
(***************************************************************************)
\* C32: a turn that returns normally returns exactly one message, of the
\* assistant: the texts of a response without tool calls joined by line
\* breaks when the loop ended on such a response, and the tool-limit message
\* when every one of the five responses held tool calls; the provider was
\* called at least once and at most five times.
C32_OneFinalMessage ==
  agent.pc = "returned" =>
    /\ Len(agent.finalMessages) = 1
    /\ agent.finalMessages[1].role = "assistant"
    /\ agent.providerCalls \in 1..5
    /\ agent.providerCalls = agent.toolIteration + (IF agent.toolIteration < 5 THEN 1 ELSE 0)
    /\ IF SelectSeq(agent.outputBlocks, IsToolUse) = <<>>
       THEN /\ agent.toolIteration < 5
            /\ agent.finalMessages[1].text = FinalContent(agent.outputBlocks)
       ELSE /\ agent.toolIteration = 5
            /\ agent.finalMessages[1].text
                 = <<"Reached tool usage limit without final response.">>

\* C32 witness: a turn has returned the text of its fourth response, after
\* three rounds of tool calls
C32_Witness ==
  /\ agent.pc = "returned"
  /\ agent.providerCalls = 4
  /\ agent.toolIteration = 3
  /\ Len(agent.outputBlocks) = 2
  /\ agent.finalMessages = << Message("assistant", <<"a", "\n", "b">>) >>

(***************************************************************************)
(* The iteration cap (Spec)                                                *)
(***************************************************************************)
\* the turn has returned after five rounds of tool calls
Capped(a) == a.pc = "returned" /\ a.toolIteration = 5

\* C33: a turn that hits the cap has made five model requests and run five
\* rounds of tool calls: the calls of the fifth response were executed like
\* the others, the last of them settling in the step that ends the turn, and
\* every call of the turn has its output in toolOutputs and its result in the
\* conversation; the results of the fifth round are in no request, the fifth
\* request being the last.
C33_FifthRoundExecuted ==
  [][Capped(agent') =>
       LET calls == SelectSeq(agent'.outputBlocks, IsToolUse)
           n == Len(calls)
           outs == agent'.toolOutputs
           issued == SelectSeq(BlocksIn(agent'.conversation), IsToolUse)
       IN /\ agent'.providerCalls = 5
          /\ n >= 1
          /\ Len(outs) = Len(issued)
          /\ \A i \in 1..n : outs[Len(outs) - n + i].name = calls[i].name
          /\ agent'.conversation =
               agent'.sent
               \o << [role |-> "assistant", text |-> <<>>, blocks |-> agent'.outputBlocks] >>
               \o [i \in 1..n |->
                     [role |-> "user", text |-> <<>>,
                      blocks |-> << [type |-> "tool_result", tool_use_id |-> calls[i].id,
                                     content |-> outs[Len(outs) - n + i].output] >>]]
          /\ ~Capped(agent) =>
               /\ agent.pc = "tools" /\ agent.toolIteration = 4
               /\ agent.tool.pc = "returned"
               /\ agent.k = n
               /\ agent.providerCalls = 5
               /\ agent'.sent = agent.sent
               /\ outs[Len(outs)].output = agent.tool.output
    ]_vars

\* C33 witness: a capped turn whose every round pinged the gateway has
\* returned; the fifth ping was answered and its output recorded
C33_Witness ==
  /\ Capped(agent)
  /\ agent.providerCalls = 5
  /\ Len(agent.toolOutputs) = 5
  /\ agent.toolOutputs[5].name = "mcp_command"
  /\ ~agent.toolOutputs[5].isError
  /\ agent.finalMessages = << Message("assistant", ToolLimitMessage) >>

(***************************************************************************)
(* Tool calls that cannot be mapped (Spec)                                 *)
(***************************************************************************)
\* a tool call that names no known tool, or an mcp_command without a command
Unmappable(call) ==
  \/ call.name \notin {"mcp_command", "registry_task"}
  \/ call.name = "mcp_command" /\ call.input.command \in {NULL, ""}

\* the agent's loop has the call in hand
CallInHand == agent.pc = "tools" /\ Unmappable(agent.calls[agent.k])

\* C34: a tool call that cannot be mapped is answered at once by a tool
\* result with isError true: the step sends no request and runs no command or
\* task; the result is recorded like any other and the loop goes on to the
\* next call of the response, to the next model request, or to the return at
\* the cap, never to an exception.
C34_UnmappableCallIsErrorResult ==
  [][CallInHand =>
       /\ wire = <<>> /\ wire' = <<>>
       /\ mcp = IdleMcp /\ mcp' = IdleMcp
       /\ slash' = IdleSlash
       /\ op' = op
       /\ agent.tool.pc \in {"idle", "returned"}
       /\ (agent.tool.pc = "idle" /\ agent' # agent) =>
            /\ agent'.tool.pc = "returned" /\ agent'.tool.isError
            /\ agent'.toolOutputs = agent.toolOutputs
       /\ agent.tool.pc = "returned" =>
            /\ agent.tool.isError
            /\ agent' # agent =>
                 /\ agent'.pc \in {"tools", "model", "returned"}
                 /\ agent'.toolOutputs =
                      Append(agent.toolOutputs,
                             [name |-> agent.calls[agent.k].name,
                              output |-> agent.tool.output, isError |-> TRUE])
                 /\ agent'.pc = "tools" => agent'.k = agent.k + 1
    ]_vars

\* C34 witness: an mcp_command with an empty command, the second call of its
\* response, has its error result; the call before it, to an unknown tool,
\* is recorded as an error, and a third call is still to come
C34_Witness ==
  /\ CallInHand
  /\ agent.k = 2 /\ Len(agent.calls) = 3
  /\ agent.calls[2].input.command = ""
  /\ agent.tool = [pc |-> "returned", output |-> <<"Missing command field">>, isError |-> TRUE]
  /\ agent.toolOutputs[Len(agent.toolOutputs)]
       = [name |-> "shell_exec",
          output |-> <<"Unknown tool invocation: ", "shell_exec">>, isError |-> TRUE]

(***************************************************************************)
(* A handshake that fails (Spec)                                           *)
(***************************************************************************)
\* the initialize request of the running invocation failed: no connection,
\* a timeout, or a status that is not a success
InitializeRaised ==
  /\ mcp.pc # "idle"
  /\ Len(wire) >= 1
  /\ wire[1].dir = "request" /\ wire[1].payload.method = "initialize"
  /\ RequestFailed(1)

\* C35: when the initialize request fails, the invocation sends nothing
\* else, neither the initialized notification nor the command's request, and
\* executeMcpCommand ends by raising the error of the request: the
\* connection failure, the timeout error, or the HTTP error of the status.
C35_FailedHandshakeEndsInvocation ==
  InitializeRaised =>
    /\ {j \in 1..Len(wire) : wire[j].dir = "request"} = {1}
    /\ mcp.pc \in {"initialize", "threw"}
    /\ mcp.pc = "initialize" => (op.name = "initialize" /\ op.pc = "threw")
    /\ LET error == IF mcp.pc = "threw" THEN mcp.error ELSE op.value IN
         /\ Len(wire) = 1 => error = [name |-> "TypeError", message |-> <<"fetch failed">>]
         /\ wire[Len(wire)] = AbortEvent =>
              /\ error.name = "Error"
              /\ Contains(error.message, <<" timed out after ">>)
         /\ (Len(wire) = 2 /\ wire[2].dir = "response") =>
              /\ error.name = "Error"
              /\ Contains(error.message, <<"HTTP ", ToString(wire[2].status)>>)

\* C35 witness: a list invocation has raised the HTTP error of a 403 answer
\* to its initialize request, the only request it sent
C35_Witness ==
  /\ InitializeRaised
  /\ mcp.pc = "threw"
  /\ mcp.command = "list"
  /\ Len(wire) = 2
  /\ wire[2].dir = "response" /\ wire[2].status = 403
  /\ Contains(mcp.error.message, <<"HTTP ", "403">>)

(***************************************************************************)
(* The result of a task that ran (Spec)                                    *)
(***************************************************************************)
\* executeSlashCommand has returned from a task the catalog knows
TaskRan ==
  /\ slash.pc = "returned"
  /\ slash.parsed.kind = "task"
  /\ slash.parsed.key \in TaskKeys(slash.parsed.category)

\* the call in hand is a registry_task whose task ran
TaskToolReturned ==
  /\ agent.pc = "tools" /\ agent.tool.pc = "returned"
  /\ agent.calls[agent.k].name = "registry_task"
  /\ TaskRan

\* C36: a task that ran gives a result of exactly one line and no isError,
\* whatever its exit code and its stderr: the line begins with the command
\* line and ends with "exitCode: n", n being 0 when the process gave none,
\* and the agent's loop gets that line as a tool result that is not an error.
C36_TaskResultNeverError ==
  /\ TaskRan =>
       /\ Len(slash.lines) = 1
       /\ ~slash.isError
       /\ LET line == slash.lines[1] IN
            /\ Len(line) >= 3
            /\ line[1] = "$ "
            /\ line[Len(line) - 1] = "exitCode: "
            /\ line[Len(line)] \in {"0", "1"}
            /\ Contains(line, <<"partial">>) => line[Len(line)] = "0"
            /\ Contains(line, <<"boom">>) => line[Len(line)] = "1"
  /\ TaskToolReturned =>
       /\ ~agent.tool.isError
       /\ agent.tool.output = slash.lines[1]

\* C36 witness: a registry_task whose process wrote to stderr and exited
\* with code 1 has given the agent's loop a result that is not an error
C36_Witness ==
  /\ TaskToolReturned
  /\ Contains(agent.tool.output, <<"stderr:", "\n", "boom">>)
  /\ Contains(agent.tool.output, <<"exitCode: ", "1">>)
  /\ ~agent.tool.isError

(***************************************************************************)
(* Authentication restarted while a resolution is pending (AuthRaceSpec):  *)
(* every run of the effect has a cancelled flag of its own, set by its     *)
(* cleanup                                                                 *)
(***************************************************************************)
\* the /retry submits of a run
MaxAuthAttempts == 3

\* an effect run whose resolveAuth is pending
PendingRun == [cancelled |-> FALSE, status |-> "pending", context |-> NoContext]

\* the state after the first render: the effect has run once
AuthRaceInit ==
  /\ client = NoClient
  /\ op = IdleOp
  /\ wire = <<>>
  /\ mcp = IdleMcp
  /\ slash = IdleSlash
  /\ agent = IdleAgent
  /\ shell = [pc |-> "auth", busy |-> FALSE, added |-> <<>>, auth |-> "loading",
              context |-> NoContext, initialised |-> FALSE, agentAvailable |-> FALSE,
              authAttempt |-> 0, seen |-> 0, runs |-> << PendingRun >>]

\* handleSubmit("/retry"): authAttempt is incremented
RetrySubmitted ==
  /\ shell.pc = "auth"
  /\ shell.authAttempt < MaxAuthAttempts
  /\ shell' = [shell EXCEPT !.authAttempt = @ + 1, !.initialised = FALSE,
                 !.added = << Message("user", <<"/", "retry">>),
                              Message("assistant", <<"Retrying authentication...">>) >>]
  /\ UNCHANGED <<client, op, wire, mcp, slash, agent>>

\* authAttempt has changed since the effect last ran: the cleanup of the
\* last run sets its flag, then the effect sets loading and calls resolveAuth
AuthEffectRuns ==
  /\ shell.pc = "auth"
  /\ shell.seen # shell.authAttempt
  /\ shell' = [shell EXCEPT
                 !.seen = shell.authAttempt,
                 !.auth = "loading", !.context = NoContext,
                 !.runs = Append([@ EXCEPT ![Len(@)].cancelled = TRUE], PendingRun)]
  /\ UNCHANGED <<client, op, wire, mcp, slash, agent>>

\* a callback that never sees its flag set
NeverCancelled(run) == FALSE

\* if (!cancelled) in the callbacks of resolveAuth
Cancelled(run) == run.cancelled

\* the resolveAuth of one of the runs settles, with a context or an error
ResolutionSettles ==
  /\ shell.pc = "auth"
  /\ \E i \in 1..Len(shell.runs), status \in {"ready", "error"}, context \in Contexts :
       /\ shell.runs[i].status = "pending"
       /\ status = "error" => context = CHOOSE c \in Contexts : TRUE
       /\ LET ctx == IF status = "ready" THEN context ELSE NoContext
              s == [shell EXCEPT !.runs[i].status = status, !.runs[i].context = ctx]
          IN shell' = IF Cancelled(shell.runs[i]) THEN s
                      ELSE [s EXCEPT !.auth = status, !.context = ctx]
  /\ UNCHANGED <<client, op, wire, mcp, slash, agent>>

AuthRaceNext ==
  \/ RetrySubmitted
  \/ AuthEffectRuns
  \/ ResolutionSettles

AuthRaceSpec == AuthRaceInit /\ [][AuthRaceNext]_vars

\* the run of the effect that called resolveAuth last
LatestRun == shell.runs[Len(shell.runs)]

\* C37: the authentication state is only ever set by the resolveAuth that
\* was started last: while it is pending the state is loading, once it has
\* settled the state is its outcome, and an earlier resolution that settles
\* late, with a context or with an error, changes neither the status nor the
\* context.
C37_LatestResolutionWins ==
  [][/\ shell'.auth = (IF LatestRun'.status = "pending" THEN "loading"
                       ELSE LatestRun'.status)
     /\ shell'.context = LatestRun'.context
     /\ \A i \in 1..(Len(shell.runs) - 1) :
          (shell.runs[i].status = "pending" /\ shell'.runs[i].status # "pending")
            => (shell'.auth = shell.auth /\ shell'.context = shell.context)
    ]_vars

\* C37 witness: the first resolution succeeded after /retry had started a
\* second one, which failed: the state is the second's error
C37_Witness ==
  /\ Len(shell.runs) = 2
  /\ shell.runs[1].cancelled /\ shell.runs[1].status = "ready"
  /\ shell.runs[2].status = "error"
  /\ shell.auth = "error" /\ shell.context = NoContext

(***************************************************************************)
(* Input while authentication is not ready (Spec)                          *)
(***************************************************************************)
\* C38: '/retry' is handled by the shell in every authentication state: it
\* restarts authentication and never reaches the dispatcher.  While the
\* state is loading or error, any other input starts neither
\* executeSlashCommand nor runAgentTurn, sends nothing, and leaves the
\* authentication state as it is.
C38_NothingStartsBeforeReady ==
  [][/\ SubmitStep =>
          LET text == shell'.added[1].text IN
          /\ text = <<"/", "retry">> =>
               /\ NothingExecuted
               /\ slash' = IdleSlash /\ agent' = IdleAgent
               /\ shell'.auth = "loading" /\ ~shell'.initialised
          /\ (shell.auth \in {"loading", "error"} /\ text # <<"/", "retry">>) =>
               /\ NothingExecuted
               /\ slash' = IdleSlash /\ agent' = IdleAgent
               /\ shell'.auth = shell.auth
               /\ shell'.context = shell.context
               /\ shell'.initialised = shell.initialised
     /\ shell'.pc \in {"slash", "agent"} =>
          /\ shell'.added[1].text # <<"/", "retry">>
          /\ shell.pc = "idle" => shell.auth = "ready"
    ]_vars

\* C38 witness: after authentication failed a typed /ping got the fixed
\* answer and nothing runs
C38_Witness ==
  /\ shell.auth = "error"
  /\ shell.pc = "idle"
  /\ Len(shell.added) = 2
  /\ shell.added[1] = Message("user", <<"/", "ping">>)
  /\ shell.added[2].role = "assistant"
  /\ slash = IdleSlash /\ agent = IdleAgent /\ wire = <<>>

(***************************************************************************)
(* The menu UI in non-interactive mode (cli/src/app.tsx, MenuSpec): the    *)
(* effect that calls executeCommand, the executions it starts, and the     *)
(* exit made while rendering                                               *)
(***************************************************************************)
\* the dependencies of the effect that change in a non-interactive run
EffectDeps(s) == [auth |-> s.auth, view |-> s.view]

MenuInit ==
  /\ client = NoClient
  /\ op = IdleOp
  /\ wire = <<>>
  /\ mcp = IdleMcp
  /\ slash = IdleSlash
  /\ agent = IdleAgent
  /\ shell \in [pc : {"menu"}, busy : {FALSE}, added : {<<>>}, auth : {"loading"},
                context : {NoContext}, initialised : {FALSE}, agentAvailable : {FALSE},
                options : BatchOptions, view : {"loading"}, executing : {FALSE},
                hasResult : {FALSE}, error : {<<>>},
                deps : {[auth |-> "loading", view |-> "loading"]},
                executions : {<<>>}, exitCodes : {<<>>}]

\* the render that follows a state update: the two exits of non-interactive
\* mode
RenderExits(s) ==
  IF s.hasResult /\ ~s.executing
  THEN [s EXCEPT !.pc = "exited", !.exitCodes = Append(@, 0)]
  ELSE IF s.error # <<>> /\ ~s.executing
  THEN [s EXCEPT !.pc = "exited", !.exitCodes = Append(@, 1)]
  ELSE s

\* executeCommand(command, extras) up to its first await, or to its return;
\* an execution is a new McpClient with its initialize request out
executeCommand(s) ==
  LET o == s.options IN
  IF s.auth # "ready" THEN s
  ELSE IF o.command = "call" /\ ~Truthy(o.tool)
  THEN [s EXCEPT !.error = <<"A tool name is required for the call command.">>,
                 !.view = "error"]
  ELSE IF o.command = "call" /\ Truthy(o.args) /\ ~ArgsJsonValid(o.args)
  THEN [s EXCEPT !.error = <<"Invalid JSON for --args: ">> \o JsonSyntaxError.message,
                 !.view = "error"]
  ELSE [s EXCEPT !.executing = TRUE, !.error = <<>>, !.view = "result",
                 !.executions = Append(@, "initialize")]

\* the effect runs after a render in which authState or view has changed
MenuEffectRuns ==
  /\ shell.pc = "menu"
  /\ shell.deps # EffectDeps(shell)
  /\ LET s == [shell EXCEPT !.deps = EffectDeps(shell)] IN
       shell' = IF s.auth = "ready" THEN RenderExits(executeCommand(s)) ELSE s
  /\ UNCHANGED <<client, op, wire, mcp, slash, agent>>

\* an await of an execution settles: the handshake, after which the
\* command's request goes out, or the last request, after which the result
\* or the error is set; a pending effect runs before a state update is
\* rendered
AwaitSettles ==
  /\ shell.pc = "menu"
  /\ \E i \in 1..Len(shell.executions), ok \in BOOLEAN :
       /\ shell.executions[i] \in {"initialize", "command"}
       /\ IF ok /\ shell.executions[i] = "initialize" /\ shell.options.command # "init"
          THEN shell' = [shell EXCEPT !.executions[i] = "command"]
          ELSE /\ shell.deps = EffectDeps(shell)
               /\ shell' = RenderExits(
                    [shell EXCEPT !.executions[i] = "settled",
                                  !.hasResult = IF ok THEN TRUE ELSE @,
                                  !.error = IF ok THEN @ ELSE FetchFailed.message,
                                  !.view = IF ok THEN "result" ELSE "error",
                                  !.executing = FALSE])
  /\ UNCHANGED <<client, op, wire, mcp, slash, agent>>

MenuNext ==
  \/ AuthResolves
  \/ MenuEffectRuns
  \/ AwaitSettles

MenuSpec == MenuInit /\ [][MenuNext]_vars

\* C39: in the menu UI's non-interactive mode the command is executed once
\* per run: the effect starts at most one execution (one McpClient, one
\* handshake), whatever re-renders executeCommand's own state updates cause.
C39_CommandExecutedOnce ==
  Len(shell.executions) <= 1

=============================================================================
